---- MODULE Spec2Model ----
(***************************************************************************)
(* CppMonoSynth (monosynth.cpp): the monophonic voice (note stack,         *)
(* portamento, AR envelope, waveform target), the OSC drain loop (decoding *)
(* of a received datagram byte by byte, and the /key, /knobs, /aux and     *)
(* /quit handlers), the fill loop, the display update and main() from its  *)
(* setup to its return.                                                    *)
(*                                                                         *)
(* Number representation.  The program computes in float32; the model      *)
(* computes in fixed point:                                                *)
(*   - coefficients in millionths            (COEFF_ONE  = 1.0)            *)
(*   - the envelope value in ten-thousandths (ENV_ONE    = 1.0), so that   *)
(*     the thresholds 0.999f and 0.0001f are the integers 9990 and 1       *)
(*   - log2-frequencies in cents             (1200 = one octave)           *)
(*   - the morph position in thousandths     (MORPH_ONE  = 1.0)            *)
(* A product coeff * x is rounded away from zero (MulCeil): in float32 a   *)
(* one-pole step with 0 < coeff <= 1 and x # 0 always moves the value,     *)
(* and the fixed-point step keeps that.  The oscillator phase and the      *)
(* integrators of the Voice's filter are sample data that none of the      *)
(* properties on the Voice read; they are left out of the Voice.  An       *)
(* SVFilter on its own (states and samples in ten-thousandths, products    *)
(* rounded to nearest) carries the properties of the filter.               *)
(***************************************************************************)
EXTENDS Integers, Sequences, FiniteSets, TLC

VARIABLES
    voice,      \* the Voice object of main()
    sent,       \* the messages the last step sent to the display process
    op,         \* the last step taken: its name and arguments
    pre,        \* the Voice as it was before the last step
    rendered,   \* number of quanta rendered in this behaviour
    stk,        \* a NoteStack on its own
    sop,        \* the last NoteStack operation, with the stack before it
    nops,       \* number of NoteStack operations applied to stk
    envl,       \* an Envelope on its own
    eop,        \* the last Envelope operation, with the envelope before it
    ctl,        \* the control targets and display values of main()
    g_running,  \* the run flag
    osc,        \* the last datagram received, the indices of osc_buf read for
                \* it, and the number of datagrams received so far
    was,        \* ctl, g_running, pc, fill, oled, oledCounter and panel as
                \* they were before the last step of main()
    pc,         \* where main() is
    handles,    \* the two sockets and the audio device: state and close count
    attempt,    \* the counter of the retry loop main() is in
    exitCode,   \* the value main() returned, -1 while it runs
    calls,      \* the system and library calls of the last step, in order
    oledCounter,\* samples rendered since the last display update
    loopEnd,    \* why the run loop ended
    lateQuanta, \* quanta rendered since g_running was cleared
    queue,      \* the datagrams waiting in the receive buffer of osc_sock
    owed,       \* how many of the messages that waited when the drain loop
                \* was entered have not been received yet
    fill,       \* the values the fill loop keeps from sample to sample, and
                \* the range of what it passed to the filter in the last quantum
    oled,       \* the display block: the values last sent, per field, and
                \* the iterations and display cycles so far
    panel,      \* what the display process was last sent: the colour of the
                \* LED (-1 before the first /led) and the text of each line
    filt,       \* an SVFilter on its own
    fin         \* its parameters and input signal, the sample last fed to it
                \* and the number of ticks so far

vars == <<voice, sent, op, pre, rendered, stk, sop, nops, envl, eop,
          ctl, g_running, osc, was, pc, handles, attempt, exitCode, calls,
          oledCounter, loopEnd, lateQuanta, queue, owed, fill, oled, panel, filt, fin>>
progVars == <<ctl, g_running, osc, was, pc, handles, attempt, exitCode, calls,
              oledCounter, loopEnd, lateQuanta, queue, owed, oled>>
voiceVars == <<voice, sent, op, pre, rendered, fill, panel>>
stackVars == <<stk, sop, nops>>
envVars == <<envl, eop>>
filtVars == <<filt, fin>>

----------------------------------------------------------------------------
(* Program constants *)

SAMPLE_RATE == 44100
PERIOD_FRAMES == 128
NOTE_STACK_SZ == 16
ATTACK_MS == 5
NUM_WAVEFORMS == 4
OLED_INTERVAL == 2205
LED_COLORS == <<1, 2, 3, 4>>

(* Fixed-point scales of the model *)
COEFF_ONE == 1000000
ENV_ONE == 10000
MORPH_ONE == 1000
ENV_ATTACK_DONE == 9990
ENV_RELEASE_DONE == 1
LOG2_A440 == 10538
DEFAULT_RELEASE_MS == 200

(* Bounds of the exploration *)
MaxRenders == 2
MaxOps == 2
MaxDatagrams == 2

----------------------------------------------------------------------------
(* Fixed-point helpers *)

\* ceil(d * c / COEFF_ONE) for d >= 0 and 0 <= c <= COEFF_ONE, computed
\* without exceeding 32-bit integers.
MulCeil(d, c) ==
    LET q == c \div 1000
        r == c % 1000
        A == d * q
        B == d * r
    IN  (A \div 1000) + ((1000 * (A % 1000) + B) + (COEFF_ONE - 1)) \div COEFF_ONE

\* cur += coeff * (tgt - cur)
OnePole(cur, tgt, coeff) ==
    IF tgt >= cur THEN cur + MulCeil(tgt - cur, coeff)
                  ELSE cur - MulCeil(cur - tgt, coeff)

\* expf(-1.0f / samples) with samples = ms * 0.001f * SAMPLE_RATE, in
\* millionths, by the series 1 - x + x^2/2 - x^3/6 (x <= 1/44.1).
ExpNegInv(ms) ==
    LET x == 1000000000 \div (ms * SAMPLE_RATE)   \* 1/samples, in millionths
    IN  COEFF_ONE - x + (x * x) \div (2 * COEFF_ONE)
          - (((x * x) \div COEFF_ONE) * x) \div (6 * COEFF_ONE)

----------------------------------------------------------------------------
(* NoteStack: notes[0 .. size-1] is the sequence, size its length *)

IndexOf(s, note) ==
    IF \E i \in 1..Len(s) : s[i] = note
    THEN CHOOSE i \in 1..Len(s) : s[i] = note /\ \A j \in 1..(i-1) : s[j] # note
    ELSE 0

NoteStack_remove(s, note) ==
    LET i == IndexOf(s, note)
    IN  IF i = 0 THEN s
        ELSE SubSeq(s, 1, i - 1) \o SubSeq(s, i + 1, Len(s))

\* Mutants of push: no capacity test; no removal of a prior occurrence;
\* eviction of the oldest entry when full.
NoteStack_push_unbounded(s, note) == Append(NoteStack_remove(s, note), note)

NoteStack_push_noDedup(s, note) ==
    IF Len(s) < NOTE_STACK_SZ THEN Append(s, note) ELSE s

NoteStack_push_evict(s, note) ==
    LET r == NoteStack_remove(s, note)
    IN  IF Len(r) < NOTE_STACK_SZ THEN Append(r, note)
        ELSE Append(SubSeq(r, 2, Len(r)), note)

NoteStack_push(s, note) ==
    LET r == NoteStack_remove(s, note)
    IN  IF Len(r) < NOTE_STACK_SZ THEN Append(r, note) ELSE r

NoteStack_top(s) == IF Len(s) > 0 THEN s[Len(s)] ELSE -1

NoteStack_empty(s) == Len(s) = 0

----------------------------------------------------------------------------
(* MIDI note -> frequency.  A frequency 440 * 2^(k/12) is carried as the   *)
(* integer k (semitones from A440); log2f turns it into cents.             *)

mtof(note) == note - 69

log2f(freq) == LOG2_A440 + 100 * freq

----------------------------------------------------------------------------
(* Portamento *)

Portamento_setTime(p, ms) ==
    IF ms < 1 THEN [p EXCEPT !.coeff = COEFF_ONE]
    ELSE [p EXCEPT !.coeff = COEFF_ONE - ExpNegInv(ms)]

Portamento_setTarget(p, freq) == [p EXCEPT !.target = log2f(freq)]

\* Mutant of snap: sets the target only.
Portamento_snap_targetOnly(p, freq) == [p EXCEPT !.target = log2f(freq)]

Portamento_snap(p, freq) ==
    [p EXCEPT !.target = log2f(freq), !.current = log2f(freq)]

Portamento_tick(p) ==
    [p EXCEPT !.current = OnePole(p.current, p.target, p.coeff)]

PortamentoInit == [target |-> 0, current |-> 0, coeff |-> COEFF_ONE]

----------------------------------------------------------------------------
(* AR envelope *)

Envelope_setAttack(e, ms) ==
    [e EXCEPT !.attackCoeff = COEFF_ONE - ExpNegInv(ms)]

Envelope_setRelease(e, ms) ==
    LET m == IF ms < 1 THEN 1 ELSE ms
    IN  [e EXCEPT !.releaseCoeff = ExpNegInv(m)]

\* Mutant of gate: gate(false) switches an attacking envelope off where it
\* stands, with no release.
Envelope_gate_offAtOnce(e, on) ==
    IF on THEN [e EXCEPT !.stage = "ATTACK"]
    ELSE IF e.stage = "ATTACK" THEN [e EXCEPT !.stage = "OFF"]
    ELSE e

Envelope_gate(e, on) ==
    IF on THEN [e EXCEPT !.stage = "ATTACK"]
    ELSE IF e.stage = "ATTACK" THEN [e EXCEPT !.stage = "RELEASE"]
    ELSE e

\* Mutant of tick: the attack, once complete, falls into the release by itself.
Envelope_tick_autoRelease(e) ==
    CASE e.stage = "ATTACK" ->
           LET v == e.value + MulCeil(ENV_ONE - e.value, e.attackCoeff)
           IN  IF v > ENV_ATTACK_DONE
               THEN [e EXCEPT !.value = ENV_ONE, !.stage = "RELEASE"]
               ELSE [e EXCEPT !.value = v]
      [] e.stage = "RELEASE" ->
           LET v == e.value - MulCeil(e.value, COEFF_ONE - e.releaseCoeff)
           IN  IF v < ENV_RELEASE_DONE
               THEN [e EXCEPT !.value = 0, !.stage = "OFF"]
               ELSE [e EXCEPT !.value = v]
      [] OTHER -> e

\* Mutant of tick: the release decays but never switches the envelope off.
Envelope_tick_noOff(e) ==
    CASE e.stage = "ATTACK" ->
           LET v == e.value + MulCeil(ENV_ONE - e.value, e.attackCoeff)
           IN  [e EXCEPT !.value = IF v > ENV_ATTACK_DONE THEN ENV_ONE ELSE v]
      [] e.stage = "RELEASE" ->
           [e EXCEPT !.value = e.value - MulCeil(e.value, COEFF_ONE - e.releaseCoeff)]
      [] OTHER -> e

Envelope_tick(e) ==
    CASE e.stage = "ATTACK" ->
           LET v == e.value + MulCeil(ENV_ONE - e.value, e.attackCoeff)
           IN  [e EXCEPT !.value = IF v > ENV_ATTACK_DONE THEN ENV_ONE ELSE v]
      [] e.stage = "RELEASE" ->
           LET v == e.value - MulCeil(e.value, COEFF_ONE - e.releaseCoeff)
           IN  IF v < ENV_RELEASE_DONE
               THEN [e EXCEPT !.value = 0, !.stage = "OFF"]
               ELSE [e EXCEPT !.value = v]
      [] OTHER -> e

EnvelopeInit ==
    Envelope_setRelease(
        Envelope_setAttack(
            [stage |-> "OFF", value |-> 0, attackCoeff |-> 0, releaseCoeff |-> 0],
            ATTACK_MS),
        DEFAULT_RELEASE_MS)

----------------------------------------------------------------------------
(* Voice *)

\* Mutant of noteOn: a first note snaps the pitch and sets the gate flag, but
\* the envelope is not gated.
Voice_noteOn_noGate(v, note) ==
    LET legato == v.gateOn
        freq   == mtof(note)
    IN  [v EXCEPT !.stack  = NoteStack_push(v.stack, note),
                  !.porta  = IF legato THEN Portamento_setTarget(v.porta, freq)
                                       ELSE Portamento_snap(v.porta, freq),
                  !.gateOn = TRUE]

\* Mutant of noteOn: every note-on snaps the pitch and gates the envelope.
Voice_noteOn_retrigger(v, note) ==
    [v EXCEPT !.stack  = NoteStack_push(v.stack, note),
              !.porta  = Portamento_snap(v.porta, mtof(note)),
              !.env    = Envelope_gate(v.env, TRUE),
              !.gateOn = TRUE]

Voice_noteOn(v, note) ==
    LET legato == v.gateOn
        freq   == mtof(note)
    IN  [v EXCEPT !.stack  = NoteStack_push(v.stack, note),
                  !.porta  = IF legato THEN Portamento_setTarget(v.porta, freq)
                                       ELSE Portamento_snap(v.porta, freq),
                  !.env    = IF legato THEN v.env ELSE Envelope_gate(v.env, TRUE),
                  !.gateOn = TRUE]

\* Mutants of noteOff: the pitch goes to the oldest held note; the envelope
\* is not gated off when the last note is released.
Voice_noteOff_oldest(v, note) ==
    LET s == NoteStack_remove(v.stack, note)
    IN  IF NoteStack_empty(s)
        THEN [v EXCEPT !.stack = s,
                       !.env = Envelope_gate(v.env, FALSE),
                       !.gateOn = FALSE]
        ELSE [v EXCEPT !.stack = s,
                       !.porta = Portamento_setTarget(v.porta, mtof(s[1]))]

Voice_noteOff_noRelease(v, note) ==
    LET s == NoteStack_remove(v.stack, note)
    IN  IF NoteStack_empty(s)
        THEN [v EXCEPT !.stack = s, !.gateOn = FALSE]
        ELSE [v EXCEPT !.stack = s,
                       !.porta = Portamento_setTarget(v.porta, mtof(NoteStack_top(s)))]

\* Mutant of noteOff: every note-off ends the gate, held notes or not.
Voice_noteOff_gateOffAlways(v, note) ==
    LET s == NoteStack_remove(v.stack, note)
    IN  IF NoteStack_empty(s)
        THEN [v EXCEPT !.stack = s,
                       !.env = Envelope_gate(v.env, FALSE),
                       !.gateOn = FALSE]
        ELSE [v EXCEPT !.stack = s,
                       !.porta = Portamento_setTarget(v.porta, mtof(NoteStack_top(s))),
                       !.gateOn = FALSE]

Voice_noteOff(v, note) ==
    LET s == NoteStack_remove(v.stack, note)
    IN  IF NoteStack_empty(s)
        THEN [v EXCEPT !.stack = s,
                       !.env = Envelope_gate(v.env, FALSE),
                       !.gateOn = FALSE]
        ELSE [v EXCEPT !.stack = s,
                       !.porta = Portamento_setTarget(v.porta, mtof(NoteStack_top(s)))]

\* One sample: portamento tick, morph smoothing, envelope tick.  (The
\* oscillator phase and the filter integrators, advanced by the same call,
\* are the sample data left out.)
Voice_tick(v) ==
    LET p == Portamento_tick(v.porta)
        t == v.targetWaveform * MORPH_ONE
        m == OnePole(v.morphPos, t, p.coeff)
    IN  [v EXCEPT !.porta = p,
                  !.morphPos = IF m - t < 1 /\ t - m < 1 THEN t ELSE m,
                  !.env = Envelope_tick(v.env)]

\* k calls of Voice::tick.  The first half is evaluated (the test on h) before
\* the second half starts, which keeps the evaluation depth logarithmic in k.
RECURSIVE TickN(_, _)
TickN(v, k) ==
    IF k = 0 THEN v
    ELSE IF k = 1 THEN Voice_tick(v)
    ELSE LET h == TickN(v, k \div 2)
         IN  IF h.gateOn = v.gateOn THEN TickN(h, k - (k \div 2)) ELSE h

VoiceInit ==
    [stack |-> << >>,
     porta |-> Portamento_setTime(PortamentoInit, 0),
     env |-> EnvelopeInit,
     gateOn |-> FALSE,
     targetWaveform |-> 0,
     morphPos |-> 0]

----------------------------------------------------------------------------
(* The handlers of the drain loop, on decoded messages.  Each returns the  *)
(* Voice after the message, the messages sent to the display process and   *)
(* the Voice method it called.                                             *)

SetLed(colour) == [addr |-> "/led", arg |-> colour]

NoCall == [fn |-> "none", note |-> 0]

AdvanceWaveform(v) ==
    LET w == (v.targetWaveform + 1) % NUM_WAVEFORMS
    IN  [voice |-> [v EXCEPT !.targetWaveform = w],
         sent  |-> << SetLed(LED_COLORS[w + 1]) >>,
         call  |-> NoCall]

Ignored(v) == [voice |-> v, sent |-> << >>, call |-> NoCall]

\* Mutant of the /key handler: the upper limit of the key range is off by one.
OnKey_wideRange(v, index, vel) ==
    IF index > 0 /\ index <= 25
    THEN LET note == index + 59
         IN  IF vel > 0
             THEN [voice |-> Voice_noteOn(v, note), sent |-> << >>,
                   call |-> [fn |-> "noteOn", note |-> note]]
             ELSE [voice |-> Voice_noteOff(v, note), sent |-> << >>,
                   call |-> [fn |-> "noteOff", note |-> note]]
    ELSE IF index = 0 /\ vel > 0
    THEN AdvanceWaveform(v)
    ELSE Ignored(v)

\* /key <index:i> <vel:i>
OnKey(v, index, vel) ==
    IF index > 0 /\ index < 25
    THEN LET note == index + 59
         IN  IF vel > 0
             THEN [voice |-> Voice_noteOn(v, note), sent |-> << >>,
                   call |-> [fn |-> "noteOn", note |-> note]]
             ELSE [voice |-> Voice_noteOff(v, note), sent |-> << >>,
                   call |-> [fn |-> "noteOff", note |-> note]]
    ELSE IF index = 0 /\ vel > 0
    THEN AdvanceWaveform(v)
    ELSE Ignored(v)

\* Mutant of the /aux handler: the waveform advances but no /led is sent.
OnAux_silent(v, auxVal) ==
    IF auxVal > 0
    THEN [voice |-> [v EXCEPT !.targetWaveform = (v.targetWaveform + 1) % NUM_WAVEFORMS],
          sent |-> << >>, call |-> NoCall]
    ELSE Ignored(v)

\* /aux <state:i>
OnAux(v, auxVal) ==
    IF auxVal > 0 THEN AdvanceWaveform(v) ELSE Ignored(v)

----------------------------------------------------------------------------
(* OSC decoding.  A received datagram is the sequence buf of its n bytes;  *)
(* the byte at C index i is buf[i + 1].  osc_buf keeps whatever an earlier *)
(* datagram left beyond index n - 1: that byte is the parameter stale.     *)
(* Every function returns what the code computes together with the set of  *)
(* indices it reads.                                                        *)

OSC_BUF_SIZE == 512
NUL == 0

ADDR_KEY   == <<47, 107, 101, 121>>             \* "/key"
ADDR_KNOBS == <<47, 107, 110, 111, 98, 115>>    \* "/knobs"
ADDR_AUX   == <<47, 97, 117, 120>>              \* "/aux"
ADDR_QUIT  == <<47, 113, 117, 105, 116>>        \* "/quit"

ByteAt(buf, stale, i) == IF i < Len(buf) THEN buf[i + 1] ELSE stale

SetMin(S) == CHOOSE x \in S : \A y \in S : x <= y

osc_pad(n) == ((n + 3) \div 4) * 4

\* Mutant of strnlen: strlen, which scans to the first NUL wherever it is
\* in osc_buf.
strlen_unbounded(buf, stale, from, maxlen) ==
    LET Z == {k \in 0..(OSC_BUF_SIZE - 1 - from) : ByteAt(buf, stale, from + k) = NUL}
        len == IF Z = {} THEN OSC_BUF_SIZE - from ELSE SetMin(Z)
    IN  [len |-> len,
         reads |-> from..(IF Z = {} THEN OSC_BUF_SIZE - 1 ELSE from + len)]

\* strnlen(buf + from, maxlen): the length, and the indices scanned.
strnlen(buf, stale, from, maxlen) ==
    LET Z == {k \in 0..(maxlen - 1) : ByteAt(buf, stale, from + k) = NUL}
    IN  IF Z = {}
        THEN [len |-> maxlen, reads |-> from..(from + maxlen - 1)]
        ELSE [len |-> SetMin(Z), reads |-> from..(from + SetMin(Z))]

\* strcmp(osc_buf, lit) == 0, and the indices compared: up to and including
\* the first index where the two strings differ or both end.
strcmp(buf, stale, lit) ==
    LET litz == Append(lit, NUL)
        D == {i \in 0..Len(lit) :
                ByteAt(buf, stale, i) # litz[i + 1] \/ ByteAt(buf, stale, i) = NUL}
        last == SetMin(D \cup {Len(lit)})
    IN  [equal |-> \A i \in 0..Len(lit) : ByteAt(buf, stale, i) = litz[i + 1],
         reads |-> 0..last]

\* osc_int: four bytes, big-endian, as a signed 32-bit integer.
osc_int(buf, stale, p) ==
    LET b0 == ByteAt(buf, stale, p)
    IN  (IF b0 >= 128 THEN b0 - 256 ELSE b0) * 16777216
          + ByteAt(buf, stale, p + 1) * 65536
          + ByteAt(buf, stale, p + 2) * 256
          + ByteAt(buf, stale, p + 3)

NoMessage == [kind |-> "none", args |-> << >>]

\* Mutant of ArgsFit: the received length is not compared with the end of
\* the last argument.
ArgsFit_unchecked(n, args_off, count) == TRUE

\* n >= args_off + 4 * count: the count arguments lie within the datagram.
ArgsFit(n, args_off, count) == n >= args_off + 4 * count

\* One pass of the drain loop's body over a datagram, up to the choice of
\* the handler: the message decoded, and every index of osc_buf read.
Decode(buf, stale) ==
    LET n        == Len(buf)
        a        == strnlen(buf, stale, 0, n)
        addr_len == osc_pad(a.len + 1)
        t        == strnlen(buf, stale, addr_len, n - addr_len)
        args_off == addr_len + osc_pad(t.len + 1)
        Args(k)  == [i \in 1..k |-> osc_int(buf, stale, args_off + 4 * (i - 1))]
        key      == strcmp(buf, stale, ADDR_KEY)
        knobs    == strcmp(buf, stale, ADDR_KNOBS)
        aux      == strcmp(buf, stale, ADDR_AUX)
        quit     == strcmp(buf, stale, ADDR_QUIT)
        scanned  == a.reads \cup t.reads
    IN  IF addr_len >= n
        THEN [msg |-> NoMessage, reads |-> a.reads]
        ELSE IF key.equal /\ ArgsFit(n, args_off, 2)
        THEN [msg |-> [kind |-> "key", args |-> Args(2)],
              reads |-> scanned \cup key.reads \cup (args_off..(args_off + 7))]
        ELSE IF knobs.equal /\ ArgsFit(n, args_off, 5)
        THEN [msg |-> [kind |-> "knobs", args |-> Args(5)],
              reads |-> scanned \cup key.reads \cup knobs.reads
                          \cup (args_off..(args_off + 19))]
        ELSE IF aux.equal /\ ArgsFit(n, args_off, 1)
        THEN [msg |-> [kind |-> "aux", args |-> Args(1)],
              reads |-> scanned \cup key.reads \cup knobs.reads \cup aux.reads
                          \cup (args_off..(args_off + 3))]
        ELSE IF quit.equal
        THEN [msg |-> [kind |-> "quit", args |-> << >>],
              reads |-> scanned \cup key.reads \cup knobs.reads \cup aux.reads
                          \cup quit.reads]
        ELSE [msg |-> NoMessage,
              reads |-> scanned \cup key.reads \cup knobs.reads \cup aux.reads
                          \cup quit.reads]

----------------------------------------------------------------------------
(* Control parameters.  Times are in whole milliseconds, the cutoff in     *)
(* whole hertz, resonance and volume in 1/10000, the LFO rate in 1/1000 Hz.*)

FIX_ONE == 10000
LN_2 == 693147        \* ln 2 in 1/1000000
LN_200 == 52983       \* ln 200 and ln 900 in 1/10000
LN_900 == 68024
KNOB_FULL == 1023
RESO_MAX == 9500       \* 0.95f
\* The hardware sends 0..1023; in an exponent a raw value further out than
\* KNOB_SAT is taken as KNOB_SAT, which keeps every power below 2^31.
KNOB_SAT == 1535

Knob(k) == IF k > KNOB_SAT THEN KNOB_SAT ELSE IF k < -KNOB_SAT THEN -KNOB_SAT ELSE k

\* e^(y / 10000) in 1/10000: 2^m times the Taylor polynomial of e^r, where
\* y = m ln 2 + r and 0 <= r < ln 2.
expf(y) ==
    LET m  == (100 * y) \div LN_2
        r  == (100 * y - m * LN_2 + 50) \div 100
        t2 == (r * r) \div (2 * FIX_ONE)
        t3 == (t2 * r) \div (3 * FIX_ONE)
        t4 == (t3 * r) \div (4 * FIX_ONE)
        t5 == (t4 * r) \div (5 * FIX_ONE)
        e  == FIX_ONE + r + t2 + t3 + t4 + t5
    IN  IF m >= 0 THEN e * 2^m ELSE e \div 2^(0 - m)

\* powf(base, k / 1023.0f) in 1/10000, given ln(base) in 1/10000.
powf(lnBase, k) == expf((Knob(k) * lnBase) \div KNOB_FULL)

ControlInit ==
    [volTarget     |-> 5000,
     cutoffTarget  |-> 8000,
     resoTarget    |-> 0,
     lfoFreq       |-> 0,
     dispPortoMs   |-> 0,
     dispCutoffHz  |-> 8000,
     dispReso      |-> 0,
     dispReleaseMs |-> 200]

TriLFO_setPeriodMs(ms) == IF ms < 1 THEN 0 ELSE 1000000 \div ms

Unhandled(v, c, run) ==
    [voice |-> v, ctl |-> c, running |-> run, sent |-> << >>, call |-> NoCall]

\* The /knobs handler: k holds the five raw values.
OnKnobs(v, c, run, k) ==
    LET portoMs   == (k[1] * 500) \div KNOB_FULL
        cutoff    == powf(LN_900, k[2]) \div 500
        reso      == (k[3] * RESO_MAX) \div KNOB_FULL
        releaseMs == powf(LN_200, k[4]) \div 1000
        vol       == (k[5] * FIX_ONE) \div KNOB_FULL
    IN  [voice |-> [v EXCEPT !.porta = Portamento_setTime(v.porta, portoMs),
                             !.env   = Envelope_setRelease(v.env, releaseMs)],
         ctl |-> [c EXCEPT !.lfoFreq       = TriLFO_setPeriodMs(portoMs),
                           !.dispPortoMs   = portoMs,
                           !.cutoffTarget  = cutoff,
                           !.dispCutoffHz  = cutoff,
                           !.resoTarget    = reso,
                           !.dispReso      = reso,
                           !.dispReleaseMs = releaseMs,
                           !.volTarget     = vol],
         running |-> run, sent |-> << >>, call |-> NoCall]

\* The handler the drain loop runs for a decoded message.
Dispatch(v, c, run, m) ==
    CASE m.kind = "key" ->
           LET r == OnKey(v, m.args[1], m.args[2])
           IN  [voice |-> r.voice, ctl |-> c, running |-> run,
                sent |-> r.sent, call |-> r.call]
      [] m.kind = "knobs" -> OnKnobs(v, c, run, m.args)
      [] m.kind = "aux" ->
           LET r == OnAux(v, m.args[1])
           IN  [voice |-> r.voice, ctl |-> c, running |-> run,
                sent |-> r.sent, call |-> r.call]
      [] m.kind = "quit" ->
           [voice |-> v, ctl |-> c, running |-> 0, sent |-> << >>, call |-> NoCall]
      [] OTHER -> Unhandled(v, c, run)

----------------------------------------------------------------------------
(* The fill loop's control smoothing and the filter parameters.  The       *)
(* smoothed cutoff is in whole hertz, the smoothed resonance and volume    *)
(* and the peak level in 1/10000.                                          *)

PARAM_SMOOTH_COEFF == 2000      \* 0.002f, in millionths
CUTOFF_MIN == 20
CUTOFF_MAX == 20000

\* The clamp at the head of SVFilter::setParams.
ClampCutoff(cutoffHz) ==
    IF cutoffHz < CUTOFF_MIN THEN CUTOFF_MIN
    ELSE IF cutoffHz > CUTOFF_MAX THEN CUTOFF_MAX
    ELSE cutoffHz

\* k = 2.0f - 2.0f * reso, in 1/10000
Damping(reso) == 2 * FIX_ONE - 2 * reso

FillInit ==
    [cutoffSmooth |-> 8000,
     resoSmooth   |-> 0,
     volSmooth    |-> 5000,
     peakLevel    |-> 0,
     fc           |-> {},     \* the cutoffs the coefficients were computed from
     reso         |-> {}]     \* the resonances passed to setParams

\* Mutant of the smoothing: a coefficient of 2, which steps over the target.
FillSample_overshoot(f, c) ==
    LET cs == 2 * c.cutoffTarget - f.cutoffSmooth
        rs == 2 * c.resoTarget - f.resoSmooth
        vs == 2 * c.volTarget - f.volSmooth
    IN  [f EXCEPT !.cutoffSmooth = cs,
                  !.resoSmooth   = rs,
                  !.volSmooth    = vs,
                  !.fc           = @ \cup {ClampCutoff(cs)},
                  !.reso         = @ \cup {rs}]

\* The head of the fill loop's body, for one sample: the three one-pole
\* steps and the call of setParams.
FillSample(f, c) ==
    LET cs == OnePole(f.cutoffSmooth, c.cutoffTarget, PARAM_SMOOTH_COEFF)
        rs == OnePole(f.resoSmooth, c.resoTarget, PARAM_SMOOTH_COEFF)
        vs == OnePole(f.volSmooth, c.volTarget, PARAM_SMOOTH_COEFF)
    IN  [f EXCEPT !.cutoffSmooth = cs,
                  !.resoSmooth   = rs,
                  !.volSmooth    = vs,
                  !.fc           = @ \cup {ClampCutoff(cs)},
                  !.reso         = @ \cup {rs}]

\* k samples.  The first half is evaluated before the second half starts.
RECURSIVE FillN(_, _, _)
FillN(f, c, k) ==
    IF k = 0 THEN f
    ELSE IF k = 1 THEN FillSample(f, c)
    ELSE LET h == FillN(f, c, k \div 2)
         IN  IF h.peakLevel = f.peakLevel THEN FillN(h, c, k - (k \div 2)) ELSE h

\* Every sample of a quantum is zero when the envelope is off: the sample is
\* the filter's output times the envelope value.
Silent(v) == v.env.stage = "OFF" /\ v.env.value = 0

\* The largest |s| of a quantum, after the clip to [-1, 1].  The oscillator
\* and the filter are left out, so the level is any of these.
Levels == {0, 4000, FIX_ONE}

PeakAfter(peak, level) == IF level > peak THEN level ELSE peak

----------------------------------------------------------------------------
(* SVFilter.  g, k and a1..a3 are in millionths, the two integrator states *)
(* and the samples in 1/10000.                                             *)

PI_FRAC == 141593       \* pi - 3, in millionths

\* a * b / COEFF_ONE for a, b >= 0, to the nearest millionth, no partial
\* product exceeding 32 bits.
MulMicro(a, b) ==
    LET ah == a \div 1000
        al == a % 1000
        bh == b \div 1000
        bl == b % 1000
    IN  ah * bh + (ah * bl + al * bh + (al * bl + 500) \div 1000 + 500) \div 1000

\* n * 10^digits / den, by long division.
RECURSIVE LongDiv(_, _, _)
LongDiv(n, den, digits) ==
    IF digits = 0 THEN n \div den
    ELSE (n \div den) * 10^digits + LongDiv((n % den) * 10, den, digits - 1)

\* The terms x^(2n) / (2n)! and x^(2n+1) / (2n+1)! of the cosine and sine
\* series, from the terms before them.
RECURSIVE SinCos(_, _, _, _)
SinCos(x2, n, tc, ts) ==
    IF n > 8 THEN [sin |-> 0, cos |-> 0]
    ELSE LET c    == MulMicro(tc, x2) \div ((2 * n - 1) * (2 * n))
             s    == MulMicro(ts, x2) \div ((2 * n) * (2 * n + 1))
             rest == SinCos(x2, n + 1, c, s)
             sign == IF n % 2 = 1 THEN -1 ELSE 1
         IN  [sin |-> sign * s + rest.sin, cos |-> sign * c + rest.cos]

\* tanf(x) for 0 <= x < pi/2
tanf(x) ==
    LET sc == SinCos(MulMicro(x, x), 1, COEFF_ONE, x)
    IN  LongDiv((x + sc.sin) * 1000, COEFF_ONE + sc.cos, 3)

SVFilterInit ==
    [ic1eq |-> 0, ic2eq |-> 0, g |-> 0, k |-> 2 * COEFF_ONE,
     a1 |-> 0, a2 |-> 0, a3 |-> 0]

\* setParams(cutoffHz, reso), reso in 1/10000
SVFilter_setParams(f, cutoffHz, reso) ==
    LET fc == ClampCutoff(cutoffHz)
        w  == LongDiv(fc * 1000, SAMPLE_RATE, 3)      \* fc * INV_SR
        g  == tanf(3 * w + MulMicro(w, PI_FRAC))
        k  == 2 * COEFF_ONE - 200 * reso
        a1 == LongDiv(1000 * COEFF_ONE, COEFF_ONE + MulMicro(g, g + k), 3)
    IN  [f EXCEPT !.g = g, !.k = k, !.a1 = a1,
                  !.a2 = MulMicro(g, a1), !.a3 = MulMicro(g, MulMicro(g, a1))]

\* c * v for a coefficient c >= 0 (millionths) and a sample v, to the
\* nearest 1/10000.
MulRound(c, v) ==
    LET d == IF v >= 0 THEN v ELSE 0 - v
        A == d * (c \div 1000)
        B == d * (c % 1000)
        m == (A \div 1000) + (1000 * (A % 1000) + B + COEFF_ONE \div 2) \div COEFF_ONE
    IN  IF v >= 0 THEN m ELSE 0 - m

\* Mutant of tick: the low-pass state is fed back with the wrong sign.
SVFilter_tick_positiveFeedback(f, v0) ==
    LET v3 == v0 + f.ic2eq
        v1 == MulRound(f.a1, f.ic1eq) + MulRound(f.a2, v3)
        v2 == f.ic2eq + MulRound(f.a2, f.ic1eq) + MulRound(f.a3, v3)
    IN  [f EXCEPT !.ic1eq = 2 * v1 - f.ic1eq, !.ic2eq = 2 * v2 - f.ic2eq]

\* tick(v0): the filter after the sample
SVFilter_tick(f, v0) ==
    LET v3 == v0 - f.ic2eq
        v1 == MulRound(f.a1, f.ic1eq) + MulRound(f.a2, v3)
        v2 == f.ic2eq + MulRound(f.a2, f.ic1eq) + MulRound(f.a3, v3)
    IN  [f EXCEPT !.ic1eq = 2 * v1 - f.ic1eq, !.ic2eq = 2 * v2 - f.ic2eq]

----------------------------------------------------------------------------
(* The display block.  A display line is the string snprintf writes.       *)

WAVE_NAMES == <<"Saw", "PWM", "Tri", "Sine">>
VU_MAX == 122

SetLine(n, text) == [addr |-> "/oled/line/" \o ToString(n), arg |-> 0, text |-> text]
DrawBox(x2, fillIt) == [addr |-> "/oled/gBox", args |-> <<3, 55, x2, 62, fillIt>>]

\* "%.1f" of n / unit, for n >= 0
Fixed1(n, unit) ==
    LET tenths == (10 * n + unit \div 2) \div unit
    IN  ToString(tenths \div 10) \o "." \o ToString(tenths % 10)

\* "%.2f" of n / unit, for n >= 0
Fixed2(n, unit) ==
    LET h == (100 * n + unit \div 2) \div unit
    IN  ToString(h \div 100) \o "." \o ToString((h % 100) \div 10) \o ToString(h % 10)

Line1(c) == "Porto: " \o ToString(c.dispPortoMs) \o "ms"

Line2(c) ==
    IF c.dispCutoffHz >= 1000
    THEN "Cutoff: " \o Fixed1(c.dispCutoffHz, 1000) \o "kHz"
    ELSE "Cutoff: " \o ToString(c.dispCutoffHz) \o "Hz"

Line3(c) == "Reso: " \o Fixed2(c.dispReso, FIX_ONE)

Line4(c) ==
    IF c.dispReleaseMs >= 1000
    THEN "Release: " \o Fixed1(c.dispReleaseMs, 1000) \o "s"
    ELSE "Release: " \o ToString(c.dispReleaseMs) \o "ms"

Line5(v) ==
    LET morphFrac == v.morphPos % MORPH_ONE
        morphLo   == (v.morphPos \div MORPH_ONE) % NUM_WAVEFORMS
        morphHi   == (morphLo + 1) % NUM_WAVEFORMS
    IN  IF morphFrac > 1
        THEN WAVE_NAMES[morphLo + 1] \o " > " \o WAVE_NAMES[morphHi + 1]
        ELSE WAVE_NAMES[morphLo + 1]

Lines(c, v) == <<Line1(c), Line2(c), Line3(c), Line4(c), Line5(v)>>

VuWidth(peak) ==
    LET w == (peak * VU_MAX) \div FIX_ONE
    IN  IF w > VU_MAX THEN VU_MAX ELSE w

\* peakLevel *= 0.95f
PeakDecay(peak) == (peak * 95) \div 100

OledInit ==
    [prevLine    |-> <<"", "", "", "", "">>,
     prevVuWidth |-> -1,
     iterations  |-> 0,
     cycles      |-> 0]

\* Mutant of the dirty check: every line is sent in every display cycle.
LineOut_always(n, text, prev) == <<SetLine(n, text)>>

\* What the block sends for line n: the line, if it is not the one last sent.
LineOut(n, text, prev) == IF text # prev THEN <<SetLine(n, text)>> ELSE << >>

\* Mutant of the VU bar: the filled box is drawn without clearing first.
VuOut_noClear(w, prev) ==
    IF w # prev /\ w > 0 THEN <<DrawBox(3 + w, 1)>> ELSE << >>

\* What the block sends for the VU bar of width w.
VuOut(w, prev) ==
    IF w # prev
    THEN <<DrawBox(125, 0)>> \o (IF w > 0 THEN <<DrawBox(3 + w, 1)>> ELSE << >>)
    ELSE << >>

\* One display cycle: the messages sent, the values last sent afterwards and
\* the peak level after its decay.
OledCycle(o, c, v, peak) ==
    LET text == Lines(c, v)
        w    == VuWidth(peak)
    IN  [out  |-> LineOut(1, text[1], o.prevLine[1]) \o LineOut(2, text[2], o.prevLine[2])
                  \o LineOut(3, text[3], o.prevLine[3]) \o LineOut(4, text[4], o.prevLine[4])
                  \o LineOut(5, text[5], o.prevLine[5]) \o VuOut(w, o.prevVuWidth),
         oled |-> [o EXCEPT !.prevLine = text, !.prevVuWidth = w],
         peak |-> PeakDecay(peak)]

\* Mutant of the display block: a display cycle runs in every iteration.
OledBlock_everyIteration(counter, o, c, v, peak) ==
    LET r == OledCycle(o, c, v, peak)
    IN  [counter |-> (counter + PERIOD_FRAMES) % OLED_INTERVAL,
         oled    |-> [r.oled EXCEPT !.iterations = @ + 1, !.cycles = @ + 1],
         out     |-> r.out,
         peak    |-> r.peak,
         cycle   |-> 1]

\* The display block: the frame counter is advanced, and a display cycle
\* runs if it has reached OLED_INTERVAL.
OledBlock(counter, o, c, v, peak) ==
    LET cnt == counter + PERIOD_FRAMES
        r   == OledCycle(o, c, v, peak)
    IN  IF cnt >= OLED_INTERVAL
        THEN [counter |-> cnt - OLED_INTERVAL,
              oled    |-> [r.oled EXCEPT !.iterations = @ + 1, !.cycles = @ + 1],
              out     |-> r.out,
              peak    |-> r.peak,
              cycle   |-> 1]
        ELSE [counter |-> cnt,
              oled    |-> [o EXCEPT !.iterations = @ + 1],
              out     |-> << >>,
              peak    |-> peak,
              cycle   |-> 0]

\* The line a message is for: 0 if it is not a line of text.
LineOf(m) ==
    IF \E n \in 1..5 : m.addr = "/oled/line/" \o ToString(n)
    THEN CHOOSE n \in 1..5 : m.addr = "/oled/line/" \o ToString(n)
    ELSE 0

\* What the display process holds after one more message.
Shown(p, m) ==
    IF m.addr = "/led" THEN [p EXCEPT !.led = m.arg]
    ELSE IF LineOf(m) > 0 THEN [p EXCEPT !.line[LineOf(m)] = m.text]
    ELSE p

\* ... and after the messages out, in order.
RECURSIVE PanelAfter(_, _)
PanelAfter(p, out) ==
    IF out = << >> THEN p ELSE PanelAfter(Shown(p, Head(out)), Tail(out))

----------------------------------------------------------------------------
(* Inputs *)

NoteKeys == {1, 2, 24}
OtherKeys == {-1, 25}
WaveKeys == {0, 1}
Velocities == {-1, 0, 1}
AuxValues == {-1, 0, 1}

----------------------------------------------------------------------------
(* Initial states *)

NoOp == [name |-> "init", a |-> 0, b |-> 0, call |-> NoCall]
NoStackOp == [name |-> "init", note |-> 0, pre |-> << >>, before |-> "init", beforeNote |-> 0]
NoEnvOp == [name |-> "init", arg |-> 0, pre |-> EnvelopeInit]

VoiceAlone ==
    /\ voice = VoiceInit /\ sent = << >> /\ op = NoOp /\ pre = VoiceInit
    /\ rendered = 0 /\ fill = FillInit
StackAlone == stk = << >> /\ sop = NoStackOp /\ nops = 0
EnvAlone == envl = EnvelopeInit /\ eop = NoEnvOp
NoInput == [fc |-> 0, reso |-> 0, signal |-> "none", v0 |-> 0, ticks |-> 0]
FilterAlone == filt = SVFilterInit /\ fin = NoInput

NoLed == -1
PanelBlank == [led |-> NoLed, line |-> <<"", "", "", "", "">>]
\* After the setup: its last status line and the colour of the first waveform.
PanelReady == [led |-> LED_COLORS[1], line |-> <<"", "Audio ready", "", "", "">>]

\* What a step keeps of the state it starts in.
Now ==
    [ctl |-> ctl, g_running |-> g_running, pc |-> pc, fill |-> fill,
     oled |-> oled, oledCounter |-> oledCounter, panel |-> panel]

NoDatagram == [buf |-> << >>, reads |-> {}, count |-> 0]
AllOpen == [mother_sock |-> "open", osc_sock |-> "open", pcm |-> "open"]

\* main() after its setup, about to receive in the first iteration.
ProgRunning ==
    /\ ctl = ControlInit
    /\ g_running = 1
    /\ osc = NoDatagram
    /\ pc = "drain"
    /\ handles = AllOpen
    /\ attempt = 0
    /\ exitCode = -1
    /\ calls = << >>
    /\ oledCounter = OLED_INTERVAL
    /\ loopEnd = "none"
    /\ lateQuanta = 0
    /\ queue = << >>
    /\ owed = 0
    /\ oled = OledInit
    /\ panel = PanelReady

Init == VoiceAlone /\ StackAlone /\ EnvAlone /\ FilterAlone /\ ProgRunning /\ was = Now

----------------------------------------------------------------------------
(* Steps of the run loop on the voice *)

KeyEvent(index, vel) ==
    LET r == OnKey(voice, index, vel)
    IN  /\ voice' = r.voice
        /\ sent' = r.sent
        /\ op' = [name |-> "key", a |-> index, b |-> vel, call |-> r.call]
        /\ pre' = voice
        /\ panel' = PanelAfter(panel, r.sent)
        /\ UNCHANGED <<rendered, fill, stackVars, envVars, filtVars, progVars>>

AuxEvent(auxVal) ==
    LET r == OnAux(voice, auxVal)
    IN  /\ voice' = r.voice
        /\ sent' = r.sent
        /\ op' = [name |-> "aux", a |-> auxVal, b |-> 0, call |-> r.call]
        /\ pre' = voice
        /\ panel' = PanelAfter(panel, r.sent)
        /\ UNCHANGED <<rendered, fill, stackVars, envVars, filtVars, progVars>>

\* The fill loop of one iteration: PERIOD_FRAMES times, the control values
\* are smoothed and passed to the filter, Voice::tick is called, the sample
\* is clipped and the peak level raised to it.
FillQuantum ==
    /\ voice' = TickN(voice, PERIOD_FRAMES)
    /\ LET f == FillN([fill EXCEPT !.fc = {}, !.reso = {}], ctl, PERIOD_FRAMES)
       IN  \E level \in (IF Silent(voice) THEN {0} ELSE Levels) :
               fill' = [f EXCEPT !.peakLevel = PeakAfter(fill.peakLevel, level)]
    /\ panel' = panel
    /\ sent' = << >>
    /\ op' = [name |-> "render", a |-> 0, b |-> 0, call |-> NoCall]
    /\ pre' = voice
    /\ rendered' = rendered + 1

RenderQuantum ==
    /\ rendered < MaxRenders
    /\ FillQuantum
    /\ UNCHANGED <<stackVars, envVars, filtVars, progVars>>

\* Spec: note keys, out-of-range keys and rendering.
Next ==
    \/ \E index \in NoteKeys \cup OtherKeys, vel \in Velocities : KeyEvent(index, vel)
    \/ RenderQuantum

Spec == Init /\ [][Next]_vars

\* SpecWave: the waveform-select messages, one note key and rendering.
NextWave ==
    \/ \E index \in WaveKeys, vel \in Velocities : KeyEvent(index, vel)
    \/ \E auxVal \in AuxValues : AuxEvent(auxVal)
    \/ RenderQuantum

SpecWave == Init /\ [][NextWave]_vars

----------------------------------------------------------------------------
(* SpecHeld: note keys and rendering on a Voice that already holds the     *)
(* keys 1..L (notes 60, 61, ...), pressed in order before the first        *)
(* sample, for L none, one below the capacity and the capacity.            *)

HeldCounts == {0, NOTE_STACK_SZ - 1, NOTE_STACK_SZ}
HeldKeys == {1, 16, 17}
KeyStates == {0, 1}

RECURSIVE HeldVoice(_)
HeldVoice(L) ==
    IF L = 0 THEN VoiceInit
    ELSE OnKey(HeldVoice(L - 1), L, 1).voice

InitHeld ==
    /\ voice \in {HeldVoice(L) : L \in HeldCounts}
    /\ pre = voice
    /\ sent = << >> /\ op = NoOp /\ rendered = 0 /\ fill = FillInit
    /\ StackAlone /\ EnvAlone /\ FilterAlone /\ ProgRunning
    /\ was = Now

NextHeld ==
    \/ \E index \in HeldKeys, vel \in KeyStates : KeyEvent(index, vel)
    \/ RenderQuantum

SpecHeld == InitHeld /\ [][NextHeld]_vars

----------------------------------------------------------------------------
(* SpecGate: note keys, /knobs snapshots and single samples on the Voice,  *)
(* in any order and without bound.  The snapshots leave the glide at 0 ms  *)
(* and choose the shortest and the longest release of the knob's range.    *)
(* The steps keep no record of themselves (op and pre stay as they are):   *)
(* the properties of this specification read the Voice only.               *)

GateKeys == {1, 2}
GateKnobs == {<<0, 512, 512, 0, 1023>>, <<0, 512, 512, 1023, 1023>>}

\* The /key handler on a note key.
VoiceKey(index, vel) ==
    LET r == OnKey(voice, index, vel)
    IN  /\ voice' = r.voice
        /\ panel' = PanelAfter(panel, r.sent)
        /\ UNCHANGED <<sent, op, pre, rendered, fill, stackVars, envVars,
                       filtVars, progVars>>

\* The /knobs handler on a decoded snapshot.
VoiceKnobs(k) ==
    LET r == OnKnobs(voice, ctl, g_running, k)
    IN  /\ voice' = r.voice
        /\ ctl' = r.ctl
        /\ UNCHANGED <<sent, op, pre, rendered, fill, panel, stackVars, envVars,
                       filtVars, g_running, osc, was, pc, handles, attempt,
                       exitCode, calls, oledCounter, loopEnd, lateQuanta,
                       queue, owed, oled>>

\* One call of Voice::tick: one sample.
VoiceTick ==
    /\ voice' = Voice_tick(voice)
    /\ UNCHANGED <<sent, op, pre, rendered, fill, panel, stackVars, envVars,
                   filtVars, progVars>>

NextGate ==
    \/ \E index \in GateKeys, vel \in KeyStates : VoiceKey(index, vel)
    \/ \E k \in GateKnobs : VoiceKnobs(k)
    \/ VoiceTick

SpecGate == Init /\ [][NextGate]_vars

----------------------------------------------------------------------------
(* SpecStack: push and remove applied to a NoteStack.  The stack starts as *)
(* the keys 1..L pressed in order (notes 60, 61, ...), for every L up to   *)
(* the capacity; MaxOps operations follow.                                 *)

Run(L) == [i \in 1..L |-> 59 + i]
ProbeNotes == {60, 67, 75, 76, 83}

InitStack ==
    /\ VoiceAlone /\ EnvAlone /\ FilterAlone /\ ProgRunning
    /\ stk \in {Run(L) : L \in 0..NOTE_STACK_SZ}
    /\ sop = NoStackOp
    /\ nops = 0
    /\ was = Now

StackPush(note) ==
    /\ nops < MaxOps
    /\ stk' = NoteStack_push(stk, note)
    /\ sop' = [name |-> "push", note |-> note, pre |-> stk,
               before |-> sop.name, beforeNote |-> sop.note]
    /\ nops' = nops + 1
    /\ UNCHANGED <<voiceVars, envVars, filtVars, progVars>>

StackRemove(note) ==
    /\ nops < MaxOps
    /\ stk' = NoteStack_remove(stk, note)
    /\ sop' = [name |-> "remove", note |-> note, pre |-> stk,
               before |-> sop.name, beforeNote |-> sop.note]
    /\ nops' = nops + 1
    /\ UNCHANGED <<voiceVars, envVars, filtVars, progVars>>

NextStack ==
    \/ \E note \in ProbeNotes : StackPush(note)
    \/ \E note \in ProbeNotes : StackRemove(note)

SpecStack == InitStack /\ [][NextStack]_vars

----------------------------------------------------------------------------
(* SpecEnv: gate, setRelease and tick applied to an Envelope *)

ReleaseTimes == {0, 10}

EnvGate(on) ==
    /\ envl' = Envelope_gate(envl, on)
    /\ eop' = [name |-> "gate", arg |-> IF on THEN 1 ELSE 0, pre |-> envl]
    /\ UNCHANGED <<voiceVars, stackVars, filtVars, progVars>>

EnvSetRelease(ms) ==
    /\ envl' = Envelope_setRelease(envl, ms)
    /\ eop' = [name |-> "setRelease", arg |-> ms, pre |-> envl]
    /\ UNCHANGED <<voiceVars, stackVars, filtVars, progVars>>

EnvTick ==
    /\ envl' = Envelope_tick(envl)
    /\ eop' = [name |-> "tick", arg |-> 0, pre |-> envl]
    /\ UNCHANGED <<voiceVars, stackVars, filtVars, progVars>>

NextEnv ==
    \/ \E on \in BOOLEAN : EnvGate(on)
    \/ \E ms \in ReleaseTimes : EnvSetRelease(ms)
    \/ EnvTick

SpecEnv == Init /\ [][NextEnv]_vars

\* Envelope::tick runs once per rendered sample for as long as the render
\* loop runs, so a tick is never postponed for ever.
SpecEnvFair == Init /\ [][NextEnv]_vars /\ WF_vars(EnvTick)

----------------------------------------------------------------------------
(* SpecFilter: an SVFilter with fixed parameters, fed MaxTicks samples of  *)
(* a signal bounded by 1.                                                  *)

MaxTicks == 10000

Cutoffs == {CUTOFF_MIN, 1000, 8000, CUTOFF_MAX}
Resonances == {0, 5000, RESO_MAX}
\* A step, the alternation of 1 and -1, and the signal that has the sign of
\* the first integrator state, which feeds the resonance in phase.
Signals == {"step", "alternate", "drive"}

Sample(signal, f, n) ==
    CASE signal = "step" -> FIX_ONE
      [] signal = "alternate" -> IF n % 2 = 0 THEN FIX_ONE ELSE 0 - FIX_ONE
      [] OTHER -> IF f.ic1eq >= 0 THEN FIX_ONE ELSE 0 - FIX_ONE

InitFilter ==
    /\ VoiceAlone /\ StackAlone /\ EnvAlone /\ ProgRunning /\ was = Now
    /\ \E fc \in Cutoffs, reso \in Resonances, signal \in Signals :
          /\ filt = SVFilter_setParams(SVFilterInit, fc, reso)
          /\ fin = [fc |-> fc, reso |-> reso, signal |-> signal, v0 |-> 0, ticks |-> 0]

FilterTick ==
    LET v0 == Sample(fin.signal, filt, fin.ticks)
    IN  /\ fin.ticks < MaxTicks
        /\ filt' = SVFilter_tick(filt, v0)
        /\ fin' = [fin EXCEPT !.v0 = v0, !.ticks = @ + 1]
        /\ UNCHANGED <<voiceVars, stackVars, envVars, progVars>>

SpecFilter == InitFilter /\ [][FilterTick]_vars

----------------------------------------------------------------------------
(* SpecOsc: the drain loop.  Each step receives one datagram: a message of *)
(* the protocol, or of an unknown address, cut off after any number of its *)
(* bytes.                                                                   *)

COMMA == 44
LETTER_I == 105
ADDR_NOP == <<47, 110, 111, 112>>               \* "/nop"

OscString(chars) ==
    chars \o [i \in 1..(osc_pad(Len(chars) + 1) - Len(chars)) |-> NUL]

Int32Bytes(i) ==
    <<(i \div 16777216) % 256, (i \div 65536) % 256, (i \div 256) % 256, i % 256>>

RECURSIVE ArgBytes(_)
ArgBytes(args) ==
    IF args = << >> THEN << >> ELSE Int32Bytes(Head(args)) \o ArgBytes(Tail(args))

TypeTag(k) == <<COMMA>> \o [i \in 1..k |-> LETTER_I]

Datagram(addr, args) ==
    OscString(addr) \o OscString(TypeTag(Len(args))) \o ArgBytes(args)

KeyArgs == {<<1, 1>>, <<0, 1>>}
KnobArgs == {<<1023, 512, 512, 0, 1023>>}
AuxArgs == {<<1>>}

Datagrams ==
    {Datagram(ADDR_KEY, a) : a \in KeyArgs}
      \cup {Datagram(ADDR_KNOBS, a) : a \in KnobArgs}
      \cup {Datagram(ADDR_AUX, a) : a \in AuxArgs}
      \cup {Datagram(ADDR_QUIT, << >>), Datagram(ADDR_QUIT, <<1>>),
            Datagram(ADDR_NOP, <<1>>), Datagram(<< >>, <<1>>)}

Received == UNION {{SubSeq(d, 1, n) : n \in 1..Len(d)} : d \in Datagrams}
StaleBytes == {0, 1}

\* One pass of the drain loop's body: recv returned Len(buf) > 0 bytes.
Recv(buf, stale) ==
    LET d == Decode(buf, stale)
        r == Dispatch(voice, ctl, g_running, d.msg)
    IN  /\ pc = "drain"
        /\ osc.count < MaxDatagrams
        /\ voice' = r.voice
        /\ ctl' = r.ctl
        /\ g_running' = r.running
        /\ sent' = r.sent
        /\ op' = [name |-> "recv", a |-> Len(buf), b |-> 0, call |-> r.call]
        /\ pre' = voice
        /\ was' = Now
        /\ osc' = [buf |-> buf, reads |-> d.reads, count |-> osc.count + 1]
        /\ calls' = <<"recv">> \o [i \in 1..Len(r.sent) |-> "sendto"]
        /\ panel' = PanelAfter(panel, r.sent)
        /\ UNCHANGED <<rendered, fill, stackVars, envVars, filtVars, pc, handles, attempt,
                       exitCode, oledCounter, oled, loopEnd, lateQuanta>>

NextOsc ==
    \E buf \in Received, stale \in StaleBytes :
        Recv(buf, stale) /\ UNCHANGED <<queue, owed>>

SpecOsc == Init /\ [][NextOsc]_vars

----------------------------------------------------------------------------
(* SpecMain: main() from its first statement to its return.  The outcome  *)
(* of every socket, bind, device and write call is the environment's; a    *)
(* signal may arrive between any two steps.                                 *)

MAX_ATTEMPTS == 10
EXIT_CLEAN == 0
EXIT_SOCKET == 2
EXIT_BIND == 3
EXIT_OPEN == 4
EXIT_HW_PARAMS == 5
RUNNING == -1

RECURSIVE ReleaseAll(_, _), ReleaseAll_butLast(_, _)

NoHandles == [mother_sock |-> "none", osc_sock |-> "none", pcm |-> "none"]

\* close() or snd_pcm_close() on a handle.  close(-1) releases nothing.
Release(h, name) ==
    [h EXCEPT ![name] = CASE @ = "open" -> "closed"
                          [] @ = "closed" -> "closed twice"
                          [] OTHER -> @]

\* Mutant of ReleaseAll: the last of the handles is left open.
ReleaseAll_butLast(h, names) ==
    IF Len(names) <= 1 THEN h
    ELSE Release(ReleaseAll_butLast(h, Tail(names)), Head(names))

ReleaseAll(h, names) ==
    IF names = << >> THEN h ELSE ReleaseAll(Release(h, Head(names)), Tail(names))

CloseCalls(names) ==
    [i \in 1..Len(names) |->
        CASE names[i] = "pcm" -> "snd_pcm_close"
          [] names[i] = "osc_sock" -> "close osc_sock"
          [] OTHER -> "close mother_sock"]

\* osc_send_str(mother_sock, &mother_addr, "/oled/line/2", text)
Status(text) == [addr |-> "/oled/line/2", arg |-> 0, text |-> text]

ProgStart ==
    /\ ctl = ControlInit
    /\ g_running = 1
    /\ osc = NoDatagram
    /\ pc = "start"
    /\ handles = NoHandles
    /\ attempt = 0
    /\ exitCode = RUNNING
    /\ calls = << >>
    /\ oledCounter = OLED_INTERVAL
    /\ loopEnd = "none"
    /\ lateQuanta = 0
    /\ queue = << >>
    /\ owed = 0
    /\ oled = OledInit
    /\ panel = PanelBlank

InitMain == VoiceAlone /\ StackAlone /\ EnvAlone /\ FilterAlone /\ ProgStart /\ was = Now

\* What every step of main() outside the drain loop's body records and
\* leaves alone.  outcome is what the environment answered: 0 for failure,
\* 1 for success, 2 for success at the second try (fallback, recovery).
Step(name, outcome, to, before, out, after) ==
    /\ pc' = to
    /\ sent' = out
    /\ calls' = before \o [i \in 1..Len(out) |-> "sendto"] \o after
    /\ op' = [name |-> name, a |-> attempt, b |-> outcome, call |-> NoCall]
    /\ pre' = voice
    /\ was' = Now
    /\ panel' = PanelAfter(panel, out)
    /\ UNCHANGED <<stackVars, envVars, filtVars, ctl, osc, queue>>

\* Mutant of Fatal: main() returns without a status line.
Fatal_silent(name, failed, out, text, names, code) ==
    /\ Step(name, 0, "exited", failed, out, CloseCalls(names))
    /\ handles' = ReleaseAll(handles, names)
    /\ exitCode' = code
    /\ UNCHANGED <<voice, rendered, fill, g_running, oledCounter, oled, loopEnd, lateQuanta, owed>>

\* A fatal setup failure: the failed call, the status line, the releases,
\* the return.
Fatal(name, failed, out, text, names, code) ==
    /\ Step(name, 0, "exited", failed, Append(out, Status(text)), CloseCalls(names))
    /\ handles' = ReleaseAll(handles, names)
    /\ exitCode' = code
    /\ UNCHANGED <<voice, rendered, fill, g_running, oledCounter, oled, loopEnd, lateQuanta, owed>>

\* sig_handler, on SIGTERM or SIGINT.
Signal ==
    /\ pc # "exited"
    /\ g_running = 1
    /\ g_running' = 0
    /\ Step("signal", 0, pc, << >>, << >>, << >>)
    /\ UNCHANGED <<voice, rendered, fill, handles, attempt, exitCode, oledCounter, oled,
                   loopEnd, lateQuanta, owed>>

CreateMotherSock(ok) ==
    /\ pc = "start"
    /\ Step("mother_sock", IF ok THEN 1 ELSE 0, "osc_sock", <<"socket">>,
            <<Status("Init sockets...")>>, << >>)
    /\ handles' = [handles EXCEPT !.mother_sock = IF ok THEN "open" ELSE "invalid"]
    /\ UNCHANGED <<voice, rendered, fill, g_running, attempt, exitCode, oledCounter, oled,
                   loopEnd, lateQuanta, owed>>

CreateOscSock(ok) ==
    /\ pc = "osc_sock"
    /\ IF ok
       THEN /\ Step("osc_sock", 1, "bind", <<"socket">>, << >>, << >>)
            /\ handles' = [handles EXCEPT !.osc_sock = "open"]
            /\ UNCHANGED <<voice, rendered, fill, g_running, exitCode, oledCounter, oled,
                           loopEnd, lateQuanta, owed>>
       ELSE Fatal("osc_sock", <<"socket">>, << >>, "socket() FAIL",
                  <<"mother_sock">>, EXIT_SOCKET)
    /\ attempt' = 0

BindAttempt(ok) ==
    /\ pc = "bind"
    /\ attempt < MAX_ATTEMPTS
    /\ IF ok
       THEN /\ Step("bind", 1, "open", <<"bind">>, <<Status("Sockets OK")>>, << >>)
            /\ attempt' = 0
            /\ UNCHANGED <<voice, rendered, fill, g_running, handles, exitCode,
                           oledCounter, oled, loopEnd, lateQuanta, owed>>
       ELSE /\ attempt' = attempt + 1
            /\ IF attempt + 1 < MAX_ATTEMPTS
               THEN /\ Step("bind", 0, "bind", <<"bind">>, <<Status("bind retry")>>, << >>)
                    /\ UNCHANGED <<voice, rendered, fill, g_running, handles, exitCode,
                                   oledCounter, oled, loopEnd, lateQuanta, owed>>
               ELSE Fatal("bind", <<"bind">>, <<Status("bind retry")>>, "bind:4000 FAIL",
                          <<"osc_sock", "mother_sock">>, EXIT_BIND)

\* Mutant of the device retry loop: plughw:0,0 is opened in every pass.
OpenAttempt_both(primary, fallback) ==
    LET opens == <<"snd_pcm_open hw:0", "snd_pcm_open plughw:0,0">>
    IN  /\ pc = "open"
        /\ attempt < MAX_ATTEMPTS
        /\ IF primary \/ fallback
           THEN /\ Step("open", IF primary THEN 1 ELSE 2, "hw_params", opens,
                        <<Status("ALSA opened")>>, << >>)
                /\ handles' = [handles EXCEPT !.pcm = "open"]
                /\ attempt' = 0
                /\ UNCHANGED <<voice, rendered, fill, g_running, exitCode, oledCounter, oled,
                               loopEnd, lateQuanta, owed>>
           ELSE /\ attempt' = attempt + 1
                /\ IF attempt + 1 < MAX_ATTEMPTS
                   THEN /\ Step("open", 0, "open", opens, <<Status("ALSA retry")>>, << >>)
                        /\ UNCHANGED <<voice, rendered, fill, g_running, handles, exitCode,
                                       oledCounter, oled, loopEnd, lateQuanta, owed>>
                   ELSE Fatal("open", opens, <<Status("ALSA retry")>>, "ALSA open FAIL",
                              <<"osc_sock", "mother_sock">>, EXIT_OPEN)

\* One pass of the device retry loop: hw:0 first, plughw:0,0 only when
\* hw:0 could not be opened.
OpenAttempt(primary, fallback) ==
    LET opens == IF primary THEN <<"snd_pcm_open hw:0">>
                 ELSE <<"snd_pcm_open hw:0", "snd_pcm_open plughw:0,0">>
    IN  /\ pc = "open"
        /\ attempt < MAX_ATTEMPTS
        /\ IF primary \/ fallback
           THEN /\ Step("open", IF primary THEN 1 ELSE 2, "hw_params", opens,
                        <<Status("ALSA opened")>>, << >>)
                /\ handles' = [handles EXCEPT !.pcm = "open"]
                /\ attempt' = 0
                /\ UNCHANGED <<voice, rendered, fill, g_running, exitCode, oledCounter, oled,
                               loopEnd, lateQuanta, owed>>
           ELSE /\ attempt' = attempt + 1
                /\ IF attempt + 1 < MAX_ATTEMPTS
                   THEN /\ Step("open", 0, "open", opens, <<Status("ALSA retry")>>, << >>)
                        /\ UNCHANGED <<voice, rendered, fill, g_running, handles, exitCode,
                                       oledCounter, oled, loopEnd, lateQuanta, owed>>
                   ELSE Fatal("open", opens, <<Status("ALSA retry")>>, "ALSA open FAIL",
                              <<"osc_sock", "mother_sock">>, EXIT_OPEN)

\* Mutant of Configure: the colour of the first waveform is not sent.
Configure_noLed(ok) ==
    /\ pc = "hw_params"
    /\ IF ok
       THEN /\ Step("hw_params", 1, "loop", <<"snd_pcm_hw_params", "snd_pcm_prepare">>,
                    <<Status("Audio ready")>>, << >>)
            /\ UNCHANGED <<voice, rendered, fill, g_running, handles, exitCode,
                           oledCounter, oled, loopEnd, lateQuanta, owed>>
       ELSE Fatal("hw_params", <<"snd_pcm_hw_params">>, << >>, "hw_params FAIL",
                  <<"pcm", "osc_sock", "mother_sock">>, EXIT_HW_PARAMS)
    /\ UNCHANGED attempt

\* snd_pcm_hw_params, and on success snd_pcm_prepare and the first messages.
Configure(ok) ==
    /\ pc = "hw_params"
    /\ IF ok
       THEN /\ Step("hw_params", 1, "loop", <<"snd_pcm_hw_params", "snd_pcm_prepare">>,
                    <<Status("Audio ready"), SetLed(LED_COLORS[1])>>, << >>)
            /\ UNCHANGED <<voice, rendered, fill, g_running, handles, exitCode,
                           oledCounter, oled, loopEnd, lateQuanta, owed>>
       ELSE Fatal("hw_params", <<"snd_pcm_hw_params">>, << >>, "hw_params FAIL",
                  <<"pcm", "osc_sock", "mother_sock">>, EXIT_HW_PARAMS)
    /\ UNCHANGED attempt

\* The messages in a queue: its datagrams that are not empty.
Waiting(q) == Cardinality({i \in 1..Len(q) : q[i] # << >>})

\* Mutant of the loop test: an iteration starts whatever the run flag is.
LoopTest_blind ==
    /\ pc = "loop"
    /\ rendered < MaxRenders
    /\ Step("test", 1, "drain", << >>, << >>, << >>)
    /\ owed' = Waiting(queue)
    /\ UNCHANGED <<voice, rendered, fill, g_running, handles, attempt, exitCode,
                   oledCounter, oled, loopEnd, lateQuanta>>

\* while (g_running)
LoopTest ==
    /\ pc = "loop"
    /\ IF g_running = 1
       THEN /\ rendered < MaxRenders
            /\ Step("test", 1, "drain", << >>, << >>, << >>)
            /\ owed' = Waiting(queue)
            /\ UNCHANGED loopEnd
       ELSE /\ Step("test", 0, "cleanup", << >>, << >>, << >>)
            /\ loopEnd' = "stopped"
            /\ UNCHANGED owed
    /\ UNCHANGED <<voice, rendered, fill, g_running, handles, attempt, exitCode,
                   oledCounter, oled, lateQuanta>>

\* recv found no datagram: the drain loop ends.
DrainEmpty ==
    /\ pc = "drain"
    /\ queue = << >>
    /\ Step("drained", 0, "render", <<"recv">>, << >>, << >>)
    /\ UNCHANGED <<voice, rendered, fill, g_running, handles, attempt, exitCode,
                   oledCounter, oled, loopEnd, lateQuanta, owed>>

\* The fill loop, within main().
Render ==
    /\ pc = "render"
    /\ FillQuantum
    /\ pc' = "write"
    /\ calls' = << >>
    /\ was' = Now
    /\ lateQuanta' = IF g_running = 0 THEN lateQuanta + 1 ELSE lateQuanta
    /\ UNCHANGED <<stackVars, envVars, filtVars, ctl, osc, g_running, handles, attempt,
                   exitCode, oledCounter, oled, loopEnd, queue, owed>>

\* Mutant of the write: a write that could not be recovered is passed over.
Write_carryOn(written, recovered) ==
    /\ pc = "write"
    /\ Step("write", IF written THEN 1 ELSE IF recovered THEN 2 ELSE 0, "oled",
            IF written THEN <<"snd_pcm_writei">>
                       ELSE <<"snd_pcm_writei", "snd_pcm_recover">>, << >>, << >>)
    /\ UNCHANGED <<voice, rendered, fill, g_running, handles, attempt, exitCode,
                   oledCounter, oled, loopEnd, lateQuanta, owed>>

\* snd_pcm_writei, and snd_pcm_recover when it failed.
Write(written, recovered) ==
    /\ pc = "write"
    /\ IF written
       THEN /\ Step("write", 1, "oled", <<"snd_pcm_writei">>, << >>, << >>)
            /\ UNCHANGED loopEnd
       ELSE IF recovered
       THEN /\ Step("write", 2, "oled", <<"snd_pcm_writei", "snd_pcm_recover">>, << >>, << >>)
            /\ UNCHANGED loopEnd
       ELSE /\ Step("write", 0, "cleanup", <<"snd_pcm_writei", "snd_pcm_recover">>,
                    <<Status("ALSA write ERR")>>, << >>)
            /\ loopEnd' = "write failed"
    /\ UNCHANGED <<voice, rendered, fill, g_running, handles, attempt, exitCode,
                   oledCounter, oled, lateQuanta, owed>>

\* The display block at the end of an iteration.
OledUpdate ==
    LET r == OledBlock(oledCounter, oled, ctl, voice, fill.peakLevel)
    IN  /\ pc = "oled"
        /\ oledCounter' = r.counter
        /\ oled' = r.oled
        /\ fill' = [fill EXCEPT !.peakLevel = r.peak]
        /\ Step("oled", r.cycle, "loop", << >>, r.out,
                IF r.cycle = 1 THEN <<"oled update">> ELSE << >>)
        /\ UNCHANGED <<voice, rendered, g_running, handles, attempt, exitCode,
                       loopEnd, lateQuanta, owed>>

\* The statements after the loop.
Cleanup ==
    /\ pc = "cleanup"
    /\ Step("cleanup", 1, "exited", <<"snd_pcm_drain">>, << >>,
            CloseCalls(<<"pcm", "osc_sock", "mother_sock">>))
    /\ handles' = ReleaseAll(handles, <<"pcm", "osc_sock", "mother_sock">>)
    /\ exitCode' = EXIT_CLEAN
    /\ UNCHANGED <<voice, rendered, fill, g_running, attempt, oledCounter, oled, loopEnd,
                   lateQuanta, owed>>

MainDatagrams ==
    {Datagram(ADDR_QUIT, << >>), Datagram(ADDR_KEY, <<1, 1>>),
     Datagram(ADDR_AUX, <<1>>), << >>}

\* A datagram reaches port 4000.
Arrive(buf) ==
    /\ pc \in {"loop", "drain", "render", "write", "oled"}
    /\ osc.count + Len(queue) < MaxDatagrams
    /\ queue' = Append(queue, buf)
    /\ UNCHANGED <<voiceVars, stackVars, envVars, filtVars, ctl, g_running, osc, was, pc,
                   handles, attempt, exitCode, calls, oledCounter, loopEnd,
                   lateQuanta, owed, oled>>

\* recv returned the datagram at the head of the queue.
RecvQueued(stale) ==
    /\ queue # << >>
    /\ Head(queue) # << >>
    /\ Recv(Head(queue), stale)
    /\ queue' = Tail(queue)
    /\ owed' = IF owed > 0 THEN owed - 1 ELSE 0

\* recv returned 0, the length of the empty datagram at the head of the
\* queue: the drain loop ends as when nothing waits.
RecvNothing ==
    /\ pc = "drain"
    /\ queue # << >>
    /\ Head(queue) = << >>
    /\ osc.count < MaxDatagrams
    /\ queue' = Tail(queue)
    /\ owed' = owed
    /\ pc' = "render"
    /\ sent' = << >>
    /\ calls' = <<"recv">>
    /\ op' = [name |-> "drained", a |-> attempt, b |-> 1, call |-> NoCall]
    /\ pre' = voice
    /\ was' = Now
    /\ osc' = [osc EXCEPT !.count = @ + 1]
    /\ UNCHANGED <<voice, rendered, fill, panel, stackVars, envVars, filtVars, ctl, g_running,
                   handles, attempt, exitCode, oledCounter, oled, loopEnd, lateQuanta>>

Sequential ==
    \/ \E ok \in BOOLEAN : CreateMotherSock(ok)
    \/ \E ok \in BOOLEAN : CreateOscSock(ok)
    \/ \E ok \in BOOLEAN : BindAttempt(ok)
    \/ \E primary, fallback \in BOOLEAN : OpenAttempt(primary, fallback)
    \/ \E ok \in BOOLEAN : Configure(ok)
    \/ LoopTest
    \/ DrainEmpty
    \/ RecvNothing
    \/ \E written, recovered \in BOOLEAN : Write(written, recovered)
    \/ OledUpdate
    \/ Cleanup

NextMain ==
    \/ Sequential
    \/ Render
    \/ \E buf \in MainDatagrams : Arrive(buf)
    \/ \E stale \in StaleBytes : RecvQueued(stale)
    \/ Signal

SpecMain == InitMain /\ [][NextMain]_vars

\* main() is one thread that is never suspended for ever: a step it can
\* take, it takes.  (Datagrams arrive MaxDatagrams times at most, so the
\* drain loop finds the queue empty in the end.)  The
\* fill loop is named by its effect on pc: Render is the only step from
\* "render" to "write".
SpecMainFair ==
    /\ InitMain /\ [][NextMain]_vars
    /\ WF_vars(Sequential)
    /\ WF_pc(pc = "render" /\ pc' = "write")
    /\ WF_queue(pc = "drain" /\ queue # << >> /\ queue' = Tail(queue))

----------------------------------------------------------------------------
(* SpecOled: the run loop and its display block.  The loop starts after a  *)
(* number of iterations in which no message arrived (the voice is silent   *)
(* and the controls are as main() set them), then messages arrive.         *)

IdleIterations == {0, 16, 17}

\* The frame counter, the display values last sent, the peak level and what
\* the display process holds after n iterations without a message.
RECURSIVE IdleRun(_)
IdleRun(n) ==
    IF n = 0
    THEN [counter |-> OLED_INTERVAL, oled |-> OledInit, peak |-> 0,
          panel |-> PanelReady]
    ELSE LET s == IdleRun(n - 1)
             r == OledBlock(s.counter, s.oled, ControlInit, VoiceInit, s.peak)
         IN  [counter |-> r.counter, oled |-> r.oled, peak |-> r.peak,
              panel |-> PanelAfter(s.panel, r.out)]

\* The fill loop's values after n quanta without a message.
IdleFill(n) ==
    IF n = 0 THEN FillInit
    ELSE FillN([FillInit EXCEPT !.fc = {}, !.reso = {}], ControlInit, PERIOD_FRAMES)

InitOled ==
    /\ voice = VoiceInit /\ sent = << >> /\ op = NoOp /\ pre = VoiceInit
    /\ rendered = 0
    /\ StackAlone /\ EnvAlone /\ FilterAlone
    /\ ctl = ControlInit
    /\ g_running = 1
    /\ osc = NoDatagram
    /\ pc = "loop"
    /\ handles = AllOpen
    /\ attempt = 0
    /\ exitCode = RUNNING
    /\ calls = << >>
    /\ loopEnd = "none"
    /\ lateQuanta = 0
    /\ queue = << >>
    /\ owed = 0
    /\ \E n \in IdleIterations :
           /\ oledCounter = IdleRun(n).counter
           /\ oled = IdleRun(n).oled
           /\ fill = [IdleFill(n) EXCEPT !.peakLevel = IdleRun(n).peak]
           /\ panel = IdleRun(n).panel
    /\ was = Now

\* The second snapshot has a third value that no knob sends.
KnobSnapshots == {<<1023, 512, 512, 0, 1023>>, <<0, 1023, 5000, 1023, 0>>}

OledDatagrams ==
    {Datagram(ADDR_KNOBS, k) : k \in KnobSnapshots}
        \cup {Datagram(ADDR_AUX, <<1>>), Datagram(ADDR_KEY, <<1, 1>>)}

NextOled ==
    \/ LoopTest
    \/ \E buf \in OledDatagrams : Arrive(buf)
    \/ \E stale \in StaleBytes : RecvQueued(stale)
    \/ DrainEmpty
    \/ Render
    \/ \E written, recovered \in BOOLEAN : Write(written, recovered)
    \/ OledUpdate

SpecOled == InitOled /\ [][NextOled]_vars

----------------------------------------------------------------------------
(* Properties.  op, pre (and sop, eop) hold the last step and the state    *)
(* before it, so each property of an operation is a predicate on states.   *)

Pitch(note) == log2f(mtof(note))
CalledNoteOn == op.name = "key" /\ op.call.fn = "noteOn"
CalledNoteOff == op.name = "key" /\ op.call.fn = "noteOff"

\* C1: a noteOn(n) while the gate is on (legato) leaves the gate on, sets the
\* portamento target to the pitch of n, leaves the portamento current value
\* as it was, and leaves the envelope stage and value as they were.
C1_LegatoNoteOn ==
    (CalledNoteOn /\ pre.gateOn) =>
        /\ voice.gateOn
        /\ voice.porta.target = Pitch(op.call.note)
        /\ voice.porta.current = pre.porta.current
        /\ voice.env.stage = pre.env.stage
        /\ voice.env.value = pre.env.value

C1_Witness ==
    /\ CalledNoteOn /\ pre.gateOn
    /\ voice.porta.target # pre.porta.target
    /\ voice.porta.current # voice.porta.target
    /\ voice.env.value > 0

\* C2: when the stack is non-empty after noteOff(n) has removed n, the gate
\* stays on, the envelope stage is unchanged and the portamento target is the
\* pitch of the new top of the stack.
C2_NoteOffGlidesToTop ==
    (CalledNoteOff /\ Len(voice.stack) > 0) =>
        /\ \A i \in 1..Len(voice.stack) : voice.stack[i] # op.call.note
        /\ voice.gateOn
        /\ voice.env.stage = pre.env.stage
        /\ voice.porta.target = Pitch(voice.stack[Len(voice.stack)])

C2_Witness ==
    /\ CalledNoteOff
    /\ pre.stack = <<60, 61, 83>> /\ op.call.note = 83
    /\ voice.stack = <<60, 61>>
    /\ voice.porta.target = Pitch(61)
    /\ pre.porta.target = Pitch(83)

\* C3: when noteOff(n) leaves the stack empty, the gate flag is false and the
\* envelope has received gate(false): Attack has become Release, any other
\* stage is unchanged; the portamento target is unchanged.
C3_LastNoteOffReleases ==
    (CalledNoteOff /\ Len(voice.stack) = 0) =>
        /\ ~voice.gateOn
        /\ pre.env.stage = "ATTACK" => voice.env.stage = "RELEASE"
        /\ pre.env.stage # "ATTACK" => voice.env.stage = pre.env.stage
        /\ voice.env.value = pre.env.value
        /\ voice.porta.target = pre.porta.target

C3_Witness ==
    /\ CalledNoteOff /\ Len(voice.stack) = 0
    /\ pre.gateOn /\ pre.env.stage = "ATTACK" /\ pre.env.value > 0
    /\ voice.env.stage = "RELEASE"

\* C4: a noteOn(n) while the gate is off finds the envelope in Off or Release,
\* snaps the pitch (current = target = pitch of n), puts the envelope in
\* Attack and sets the gate on.
C4_NonLegatoNoteOn ==
    (CalledNoteOn /\ ~pre.gateOn) =>
        /\ pre.env.stage \in {"OFF", "RELEASE"}
        /\ voice.porta.target = Pitch(op.call.note)
        /\ voice.porta.current = Pitch(op.call.note)
        /\ voice.env.stage = "ATTACK"
        /\ voice.gateOn

C4_Witness ==
    /\ CalledNoteOn /\ ~pre.gateOn
    /\ pre.env.stage = "RELEASE"
    /\ pre.porta.current # voice.porta.current
    /\ voice.porta.current = voice.porta.target

\* C5: a /key message with index in 1..24 calls noteOn(index + 59) when the
\* velocity is positive and noteOff(index + 59) otherwise (index 1 is note
\* 60); with an index outside 0..24 it changes nothing and sends nothing.
C5_KeyMapping ==
    op.name = "key" =>
        /\ (op.a \in 1..24 /\ op.b > 0) =>
              /\ op.call = [fn |-> "noteOn", note |-> op.a + 59]
              /\ voice = Voice_noteOn(pre, op.a + 59)
        /\ (op.a \in 1..24 /\ op.b <= 0) =>
              /\ op.call = [fn |-> "noteOff", note |-> op.a + 59]
              /\ voice = Voice_noteOff(pre, op.a + 59)
        /\ (op.a = 1 /\ op.b > 0) => voice.stack[Len(voice.stack)] = 60
        /\ op.a \notin 0..24 => (voice = pre /\ sent = << >> /\ op.call = NoCall)

C5_Witness ==
    /\ op.name = "key" /\ op.a = 1 /\ op.b = 1
    /\ Len(pre.stack) > 0 /\ pre.stack[Len(pre.stack)] = 83
    /\ voice.stack[Len(voice.stack)] = 60
    /\ voice.porta.target = LOG2_A440 - 900

\* C6: /key with index 0 and positive velocity, and /aux with a positive
\* value, set the waveform target to (old + 1) mod 4, send exactly one /led
\* message and touch nothing else of the voice; the waveform target is always
\* in 0..3; /key index 0 with velocity <= 0 and /aux with value <= 0 change
\* nothing and send nothing.
WaveSelect ==
    \/ op.name = "key" /\ op.a = 0 /\ op.b > 0
    \/ op.name = "aux" /\ op.a > 0

WaveIgnored ==
    \/ op.name = "key" /\ op.a = 0 /\ op.b <= 0
    \/ op.name = "aux" /\ op.a <= 0

C6_WaveformSelect ==
    /\ voice.targetWaveform \in 0..3
    /\ WaveSelect =>
          /\ voice.targetWaveform = (pre.targetWaveform + 1) % 4
          /\ Len(sent) = 1 /\ sent[1].addr = "/led"
          /\ op.call = NoCall
          /\ voice = [pre EXCEPT !.targetWaveform = voice.targetWaveform]
    /\ WaveIgnored => (voice = pre /\ sent = << >>)

C6_Witness ==
    /\ op.name = "aux" /\ op.a > 0
    /\ pre.targetWaveform = 3 /\ voice.targetWaveform = 0
    /\ voice.gateOn /\ voice.stack = <<60>>
    /\ Len(sent) = 1

\* C7: the stack size is in 0..16 and no note occurs twice in the stack.
C7_StackBoundedNoDuplicates ==
    /\ Len(stk) \in 0..16
    /\ \A i, j \in 1..Len(stk) : i # j => stk[i] # stk[j]

C7_Witness ==
    /\ sop.name = "push" /\ Len(sop.pre) = 16
    /\ \A i \in 1..16 : sop.pre[i] # sop.note
    /\ Len(stk) = 16

Holds(s, note) == \E i \in 1..Len(s) : s[i] = note
Others(s, note) == SelectSeq(s, LAMBDA x : x # note)
PushedTwice == sop.name = "push" /\ sop.before = "push" /\ sop.beforeNote = sop.note

\* C8 as stated: pushing a note already in the stack keeps the size, moves the
\* note to the top and keeps the order of the others; a second push of the
\* same note keeps the size and has the note on top; removing an absent note
\* changes nothing.
C8_PushDedupAsStated ==
    /\ (sop.name = "push" /\ Holds(sop.pre, sop.note)) =>
          /\ Len(stk) = Len(sop.pre)
          /\ stk[Len(stk)] = sop.note
          /\ Others(stk, sop.note) = Others(sop.pre, sop.note)
    /\ PushedTwice =>
          /\ Len(stk) = Len(sop.pre)
          /\ Len(stk) > 0 /\ stk[Len(stk)] = sop.note
    /\ (sop.name = "remove" /\ ~Holds(sop.pre, sop.note)) => stk = sop.pre

\* C8 amended: as stated, except that after a second push of the same note the
\* note is on top only if the first push put it in the stack; when the first
\* push was dropped at capacity the second is dropped too and the stack is
\* unchanged.
C8_PushDedup ==
    /\ (sop.name = "push" /\ Holds(sop.pre, sop.note)) =>
          /\ Len(stk) = Len(sop.pre)
          /\ stk[Len(stk)] = sop.note
          /\ Others(stk, sop.note) = Others(sop.pre, sop.note)
    /\ PushedTwice =>
          /\ Len(stk) = Len(sop.pre)
          /\ IF Holds(sop.pre, sop.note) THEN stk[Len(stk)] = sop.note
                                         ELSE stk = sop.pre /\ Len(stk) = 16
    /\ (sop.name = "remove" /\ ~Holds(sop.pre, sop.note)) => stk = sop.pre

C8_Witness ==
    /\ PushedTwice
    /\ Holds(sop.pre, sop.note)
    /\ Len(stk) > 1 /\ stk[Len(stk)] = sop.note

\* C9: pushing a note that is not in a stack of 16 notes is dropped: the 16
\* entries and their order are unchanged.
C9_OverflowDropsPush ==
    (sop.name = "push" /\ Len(sop.pre) = 16 /\ ~Holds(sop.pre, sop.note)) =>
        stk = sop.pre

C9_Witness ==
    /\ sop.name = "push" /\ Len(sop.pre) = 16 /\ ~Holds(sop.pre, sop.note)
    /\ stk = Run(16)

\* C10: the envelope changes stage only by gate(true) (to Attack, from any
\* stage, value kept), by gate(false) in Attack (to Release) and by a tick in
\* Release whose value falls below 0.0001 (to Off); a tick in Attack stays in
\* Attack, gate(false) in Off or Release changes nothing.
C10_EnvelopeTransitions ==
    LET p == eop.pre
        decayed == p.value - MulCeil(p.value, COEFF_ONE - p.releaseCoeff)
    IN  /\ (eop.name = "gate" /\ eop.arg = 1) =>
              (envl.stage = "ATTACK" /\ envl.value = p.value)
        /\ (eop.name = "gate" /\ eop.arg = 0) =>
              IF p.stage = "ATTACK"
              THEN envl.stage = "RELEASE" /\ envl.value = p.value
              ELSE envl = p
        /\ eop.name = "tick" =>
              CASE p.stage = "ATTACK" -> envl.stage = "ATTACK"
                [] p.stage = "RELEASE" ->
                     IF decayed < ENV_RELEASE_DONE
                     THEN envl.stage = "OFF" /\ envl.value = 0
                     ELSE envl.stage = "RELEASE" /\ envl.value = decayed
                [] OTHER -> envl = p
        /\ eop.name = "setRelease" => envl.stage = p.stage

C10_Witness ==
    /\ eop.name = "gate" /\ eop.arg = 1
    /\ eop.pre.stage = "RELEASE" /\ eop.pre.value > 0 /\ eop.pre.value < ENV_ONE
    /\ envl.stage = "ATTACK" /\ envl.value = eop.pre.value

\* C11: a tick in Release never raises the value and switches to Off, with
\* value exactly 0, exactly when the decayed value is below 0.0001; a tick in
\* Attack never lowers the value; an envelope in Release eventually is Off
\* with value 0 unless gate(true) restarts the attack, and an envelope in
\* Attack eventually has value 1.0 unless gate(false) releases it.
C11_ReleaseCompletes ==
    /\ [][eop'.name = "tick" =>
            /\ envl.stage = "RELEASE" =>
                  /\ envl'.value <= envl.value
                  /\ envl'.stage \in {"RELEASE", "OFF"}
                  /\ envl'.stage = "OFF" <=>
                        envl.value - MulCeil(envl.value, COEFF_ONE - envl.releaseCoeff)
                            < ENV_RELEASE_DONE
                  /\ envl'.stage = "OFF" => envl'.value = 0
            /\ envl.stage = "ATTACK" =>
                  /\ envl'.value >= envl.value
                  /\ envl'.stage = "ATTACK"]_vars
    /\ (envl.stage = "RELEASE") ~>
          ((envl.stage = "OFF" /\ envl.value = 0) \/ envl.stage = "ATTACK")
    /\ (envl.stage = "ATTACK") ~>
          (envl.value = ENV_ONE \/ envl.stage = "RELEASE")

C11_Witness ==
    /\ eop.name = "tick"
    /\ eop.pre.stage = "RELEASE" /\ eop.pre.value > 0 /\ eop.pre.releaseCoeff > 0
    /\ envl.stage = "OFF" /\ envl.value = 0

\* The wire format of a datagram, read off its bytes: where the address
\* string ends, which address it is, where the type-tag string ends and how
\* many 32-bit arguments the message of that address carries.
FirstNul(buf, from) ==
    SetMin({i \in from..(Len(buf) - 1) : buf[i + 1] = NUL} \cup {Len(buf)})
AddrEnd(buf) == 4 * ((FirstNul(buf, 0) + 4) \div 4)
TagEnd(buf) == AddrEnd(buf) + 4 * ((FirstNul(buf, AddrEnd(buf)) - AddrEnd(buf) + 4) \div 4)
Addressed(buf, lit) == SubSeq(buf, 1, FirstNul(buf, 0)) = lit
Arity(buf) ==
    IF Addressed(buf, ADDR_KEY) THEN 2
    ELSE IF Addressed(buf, ADDR_KNOBS) THEN 5
    ELSE IF Addressed(buf, ADDR_AUX) THEN 1
    ELSE 0
AddrUnterminated(buf) == FirstNul(buf, 0) = Len(buf)
AddrFillsBuffer(buf) == ~AddrUnterminated(buf) /\ AddrEnd(buf) >= Len(buf)
TagUnterminated(buf) ==
    AddrEnd(buf) < Len(buf) /\ FirstNul(buf, AddrEnd(buf)) = Len(buf)
ArgsPastEnd(buf) ==
    AddrEnd(buf) < Len(buf) /\ Arity(buf) > 0 /\ TagEnd(buf) + 4 * Arity(buf) > Len(buf)
UnknownAddress(buf) ==
    /\ ~AddrUnterminated(buf)
    /\ \A lit \in {ADDR_KEY, ADDR_KNOBS, ADDR_AUX, ADDR_QUIT} : ~Addressed(buf, lit)
Malformed(buf) ==
    AddrUnterminated(buf) \/ AddrFillsBuffer(buf) \/ ArgsPastEnd(buf) \/ UnknownAddress(buf)
NothingHappened ==
    /\ voice = pre /\ ctl = was.ctl /\ g_running = was.g_running
    /\ sent = << >> /\ op.call = NoCall

\* C12: for a received datagram of n bytes every index of osc_buf the drain
\* loop reads (address scan, type-tag scan, address comparisons, integer
\* arguments) is at least 0 and below n.
C12_NoReadOutOfBounds ==
    op.name = "recv" => \A i \in osc.reads : i >= 0 /\ i < Len(osc.buf)

C12_Witness ==
    /\ op.name = "recv"
    /\ Addressed(osc.buf, ADDR_KNOBS) /\ Len(osc.buf) = TagEnd(osc.buf) + 20
    /\ (Len(osc.buf) - 1) \in osc.reads
    /\ ctl.volTarget = FIX_ONE

C14_TypeTagValidated ==
    (op.name = "recv" /\ TagUnterminated(osc.buf)) => NothingHappened

\* C15: g_running is never set again once cleared; an iteration starts only
\* at the loop test and only while g_running is set; at most one quantum is
\* rendered after g_running was cleared; the statements after the loop drain
\* the device, close it, close the receive socket and close the display
\* socket, in that order, and return; once g_running is cleared main()
\* eventually returns.
C15_CooperativeShutdown ==
    /\ [][g_running' <= g_running]_vars
    /\ [][pc' = "drain" /\ pc # "drain" => pc = "loop" /\ g_running = 1]_vars
    /\ [](lateQuanta <= 1)
    /\ [][pc = "cleanup" /\ pc' # pc =>
            /\ pc' = "exited"
            /\ calls' = <<"snd_pcm_drain", "snd_pcm_close", "close osc_sock",
                          "close mother_sock">>
            /\ handles'.pcm = "closed" /\ handles'.osc_sock = "closed"
            /\ handles'.mother_sock \in {"closed", "invalid"}]_vars
    /\ (g_running = 0) ~> (pc = "exited")

C15_Witness ==
    /\ pc = "exited" /\ op.name = "cleanup"
    /\ loopEnd = "stopped" /\ lateQuanta = 1 /\ rendered = 2
    /\ osc.buf = Datagram(ADDR_QUIT, << >>)

\* C16 as stated: main() returns 0 only when the loop ended because
\* g_running was found cleared; after a write that could not be recovered it
\* returns another value.
C16_ZeroMeansClean ==
    pc = "exited" =>
        /\ exitCode = 0 => loopEnd = "stopped"
        /\ loopEnd = "write failed" => exitCode # 0

SetupPcs == {"osc_sock", "bind", "open", "hw_params"}
NeverLooped ==
    /\ was.pc \in SetupPcs
    /\ rendered = 0 /\ osc.count = 0 /\ lateQuanta = 0 /\ loopEnd = "none"
    /\ oledCounter = OLED_INTERVAL /\ voice = VoiceInit
IndexIn(seq, x) == SetMin({i \in 1..Len(seq) : seq[i] = x} \cup {Len(seq) + 1})
StatusBeforeReturn(text) ==
    /\ Len(sent) >= 1 /\ sent[Len(sent)] = [addr |-> "/oled/line/2", arg |-> 0, text |-> text]
    /\ \A i \in 1..Len(calls) :
          calls[i] \in {"close osc_sock", "close mother_sock", "snd_pcm_close"} =>
              \E j \in 1..(i - 1) : calls[j] = "sendto"

\* C17: a failed creation of the receive socket returns 2, a bind that failed
\* ten times returns 3, a device that could not be opened in ten passes
\* returns 4, a failed snd_pcm_hw_params returns 5; main() returns no other
\* value but 0; in each of the four cases the loop was never entered and the
\* last message sent, before any handle is closed, is the status line.
C17_SetupExitCodes ==
    /\ exitCode \in {-1, 0, 2, 3, 4, 5}
    /\ (pc = "exited") <=> (exitCode # -1)
    /\ (op.name = "osc_sock" /\ op.b = 0) =>
          exitCode = 2 /\ StatusBeforeReturn("socket() FAIL")
    /\ (op.name = "bind" /\ op.b = 0 /\ op.a = 9) =>
          exitCode = 3 /\ StatusBeforeReturn("bind:4000 FAIL")
    /\ (op.name = "open" /\ op.b = 0 /\ op.a = 9) =>
          exitCode = 4 /\ StatusBeforeReturn("ALSA open FAIL")
    /\ (op.name = "hw_params" /\ op.b = 0) =>
          exitCode = 5 /\ StatusBeforeReturn("hw_params FAIL")
    /\ exitCode \in {2, 3, 4, 5} =>
          /\ NeverLooped
          /\ op.b = 0
          /\ op.name = CASE exitCode = 2 -> "osc_sock" [] exitCode = 3 -> "bind"
                          [] exitCode = 4 -> "open" [] OTHER -> "hw_params"

C17_Witness ==
    /\ pc = "exited" /\ exitCode = 5
    /\ handles.pcm = "closed"
    /\ Len(sent) = 1 /\ sent[1].text = "hw_params FAIL"

\* C18: bind is called at most ten times and the device loop makes at most
\* ten passes; a pass opens hw:0 and opens plughw:0,0 only if hw:0 failed;
\* the first success leaves the retry loop for the next stage of the setup;
\* a failure is fatal only in the tenth pass; no bind or device open happens
\* once the run loop has begun.
C18_BoundedRetry ==
    /\ attempt \in 0..10
    /\ op.name \in {"bind", "open"} =>
          /\ op.a \in 0..9
          /\ rendered = 0 /\ osc.count = 0 /\ loopEnd = "none"
          /\ op.b # 0 => attempt = 0 /\ exitCode = -1
                          /\ pc = (IF op.name = "bind" THEN "open" ELSE "hw_params")
          /\ (op.b = 0 /\ op.a < 9) =>
                attempt = op.a + 1 /\ pc = op.name /\ exitCode = -1
          /\ (op.b = 0 /\ op.a = 9) => attempt = 10 /\ pc = "exited"
          /\ pc = "exited" => (op.b = 0 /\ op.a = 9)
    /\ op.name = "bind" => calls[1] = "bind" /\ IndexIn(Tail(calls), "bind") > Len(calls) - 1
    /\ op.name = "open" =>
          /\ calls[1] = "snd_pcm_open hw:0"
          /\ IF op.b = 1
             THEN \A i \in 2..Len(calls) : calls[i] = "sendto"
             ELSE /\ calls[2] = "snd_pcm_open plughw:0,0"
                  /\ \A i \in 3..Len(calls) :
                        calls[i] \notin {"snd_pcm_open hw:0", "snd_pcm_open plughw:0,0"}
    /\ pc \in {"loop", "drain", "render", "write", "oled", "cleanup"} =>
          op.name \notin {"bind", "open", "osc_sock", "mother_sock"}

C18_Witness ==
    /\ op.name = "open" /\ op.a = 9 /\ op.b = 2
    /\ pc = "hw_params" /\ handles.pcm = "open"
    /\ calls = <<"snd_pcm_open hw:0", "snd_pcm_open plughw:0,0", "sendto">>

\* C19: a write that succeeds calls snd_pcm_writei only; a write that fails
\* calls snd_pcm_recover once; if that succeeds the iteration goes on to its
\* display block and the loop test; if it fails the loop is left for the
\* statements after it, and no quantum is rendered or written and no display
\* block runs from then on.
C19_UnderrunRecovery ==
    /\ op.name = "write" =>
          /\ op.b = 1 => calls = <<"snd_pcm_writei">> /\ pc = "oled"
          /\ op.b = 2 => calls = <<"snd_pcm_writei", "snd_pcm_recover">> /\ pc = "oled"
          /\ op.b = 0 => /\ calls = <<"snd_pcm_writei", "snd_pcm_recover", "sendto">>
                         /\ pc = "cleanup" /\ loopEnd = "write failed"
    /\ loopEnd = "write failed" =>
          /\ op.name \in {"write", "signal", "cleanup"}
          /\ pc \in {"cleanup", "exited"}
    /\ (op.name = "oled" /\ was.pc = "oled") => loopEnd = "none"

C19_Witness ==
    /\ op.name = "write" /\ op.b = 0
    /\ rendered = 2 /\ pc = "cleanup"
    /\ sent = <<[addr |-> "/oled/line/2", arg |-> 0, text |-> "ALSA write ERR"]>>

\* C20: when main() has returned, every socket and the device are closed if
\* they were ever opened, and at no time has a handle been closed twice.
C20_NoLeak ==
    /\ \A h \in {"mother_sock", "osc_sock", "pcm"} :
          /\ handles[h] \in {"none", "invalid", "open", "closed"}
          /\ pc = "exited" => handles[h] # "open"
    /\ pc = "exited" <=> exitCode # -1

C20_Witness ==
    /\ pc = "exited" /\ exitCode = 4
    /\ handles = [mother_sock |-> "closed", osc_sock |-> "closed", pcm |-> "none"]

----------------------------------------------------------------------------
(* The run loop *)

LoopPcs == {"loop", "drain", "render", "write", "oled"}

\* The steps of an iteration follow one another in the order drain, render,
\* write, display; a datagram is received in the drain phase only, and a
\* render is the PERIOD_FRAMES ticks of the voice.
PhaseOrder ==
    /\ op.name = "recv"    => was.pc = "drain" /\ pc = "drain"
    /\ op.name = "drained" => was.pc = "drain" /\ pc = "render"
    /\ op.name = "render"  => /\ was.pc = "render" /\ pc = "write"
                              /\ voice = TickN(pre, PERIOD_FRAMES)
    /\ op.name = "write"   => was.pc = "write" /\ pc \in {"oled", "cleanup"}
    /\ op.name = "oled"    => was.pc = "oled" /\ pc = "loop"
    /\ op.name = "test"    => was.pc = "loop" /\ pc \in {"drain", "cleanup"}

\* C21: in every iteration the queue is drained until a receive returns no
\* message, then PERIOD_FRAMES frames are rendered, then written, then the
\* display block runs; no message is received between render and write; and
\* every datagram that waited when the drain began has been received (and
\* so applied) before the quantum is rendered.
C21_PhaseOrder ==
    /\ PhaseOrder
    /\ pc \in {"render", "write"} => owed = 0

----------------------------------------------------------------------------
(* The display block *)

IsDisplay(m) == LineOf(m) > 0 \/ m.addr = "/oled/gBox"
DisplaySent == \E i \in 1..Len(sent) : IsDisplay(sent[i])
DisplayCycle == op.name = "oled" /\ op.b = 1
InLoop == was.pc \in LoopPcs /\ pc \in LoopPcs

C22_WitnessNoCycle == op.name = "oled" /\ op.b = 0 /\ osc.count > 0

\* The messages of the last step for line n, and those for the VU bar.
LineSent(n) == SelectSeq(sent, LAMBDA m : LineOf(m) = n)
BoxesSent == SelectSeq(sent, LAMBDA m : m.addr = "/oled/gBox")

\* C23: in a display cycle a line is sent if and only if its text differs
\* from the text last sent for it, and is the text last sent afterwards; a
\* line sent never repeats the previous message for that line; the VU bar
\* is sent if and only if its width changed, as the clearing box followed by
\* the filled box (left out when the width is 0), and the width lies in
\* 0..VU_MAX.
C23_DirtyChecked ==
    DisplayCycle =>
        LET text == Lines(ctl, voice)
            w    == VuWidth(was.fill.peakLevel)
        IN  /\ \A n \in 1..5 :
                  /\ LineSent(n) = IF text[n] # was.oled.prevLine[n]
                                   THEN <<SetLine(n, text[n])>> ELSE << >>
                  /\ oled.prevLine[n] = text[n]
                  /\ LineSent(n) # << >> => LineSent(n)[1].text # was.panel.line[n]
                  /\ panel.line[n] = oled.prevLine[n]
            /\ BoxesSent = IF w = was.oled.prevVuWidth THEN << >>
                           ELSE IF w = 0 THEN <<DrawBox(125, 0)>>
                           ELSE <<DrawBox(125, 0), DrawBox(3 + w, 1)>>
            /\ oled.prevVuWidth = w
            /\ w \in 0..VU_MAX

\* A display cycle after the first one sent one line and kept another, and
\* redrew the VU bar at a new width.
C23_Witness ==
    /\ DisplayCycle /\ oled.cycles >= 2
    /\ \E n, m \in 1..5 : LineSent(n) # << >> /\ LineSent(m) = << >>
    /\ Len(BoxesSent) = 2

\* The first display cycle, at width 0: the clearing box alone.
C23_WitnessCleared ==
    /\ DisplayCycle /\ was.oled.prevVuWidth = -1 /\ BoxesSent = <<DrawBox(125, 0)>>

----------------------------------------------------------------------------
(* Control smoothing and filter parameters *)

KnobsReceived == op.name = "recv" /\ Decode(osc.buf, NUL).msg.kind = "knobs"

\* b lies between a and t: a step from a toward t that does not pass t.
Toward(a, b, t) == (a <= t => a <= b /\ b <= t) /\ (a >= t => t <= b /\ b <= a)

\* C24: a /knobs message sets the volume, cutoff and resonance targets at
\* once and leaves the smoothed values as they are; the smoothed values
\* change only in the fill loop, each sample toward its target and never past
\* it; the glide and release times are in the portamento and envelope
\* coefficients as soon as the message is handled; the message changes
\* neither the note stack, the gate, the envelope stage nor the waveform
\* target.
C24_KnobsSetTargets ==
    /\ KnobsReceived =>
          LET k == Decode(osc.buf, NUL).msg.args
          IN  /\ ctl.volTarget = (k[5] * FIX_ONE) \div KNOB_FULL
              /\ ctl.resoTarget = (k[3] * RESO_MAX) \div KNOB_FULL
              /\ ctl.cutoffTarget = powf(LN_900, k[2]) \div 500
              /\ fill = was.fill
              /\ voice.porta = Portamento_setTime(pre.porta, (k[1] * 500) \div KNOB_FULL)
              /\ voice.env.releaseCoeff = ExpNegInv(ctl.dispReleaseMs)
              /\ ctl.dispReleaseMs = powf(LN_200, k[4]) \div 1000
              /\ voice.env = [pre.env EXCEPT !.releaseCoeff = voice.env.releaseCoeff]
              /\ voice.stack = pre.stack
              /\ voice.gateOn = pre.gateOn
              /\ voice.targetWaveform = pre.targetWaveform
              /\ voice.morphPos = pre.morphPos
    /\ op.name = "render" =>
          /\ Toward(was.fill.cutoffSmooth, fill.cutoffSmooth, ctl.cutoffTarget)
          /\ Toward(was.fill.resoSmooth, fill.resoSmooth, ctl.resoTarget)
          /\ Toward(was.fill.volSmooth, fill.volSmooth, ctl.volTarget)
          /\ \A r \in fill.reso : Toward(was.fill.resoSmooth, r, ctl.resoTarget)
          /\ \A f \in fill.fc :
                Toward(ClampCutoff(was.fill.cutoffSmooth), f, ClampCutoff(ctl.cutoffTarget))
    /\ op.name \notin {"render", "init"} =>
          /\ fill.cutoffSmooth = was.fill.cutoffSmooth
          /\ fill.resoSmooth = was.fill.resoSmooth
          /\ fill.volSmooth = was.fill.volSmooth

\* A /knobs message, received while a note is held, has moved the three
\* targets away from the smoothed values and changed both coefficients.
C24_Witness ==
    /\ KnobsReceived
    /\ pre.gateOn
    /\ ctl.volTarget # fill.volSmooth
    /\ ctl.cutoffTarget # fill.cutoffSmooth
    /\ ctl.resoTarget # fill.resoSmooth
    /\ voice.porta.coeff # pre.porta.coeff
    /\ voice.env.releaseCoeff # pre.env.releaseCoeff

\* The quantum after it has moved each smoothed value part of the way.
C24_WitnessSmoothed ==
    /\ op.name = "render"
    /\ fill.volSmooth \notin {was.fill.volSmooth, ctl.volTarget}
    /\ fill.cutoffSmooth \notin {was.fill.cutoffSmooth, ctl.cutoffTarget}
    /\ fill.resoSmooth \notin {was.fill.resoSmooth, ctl.resoTarget}

\* C25: on every rendered sample the resonance passed to the filter lies in
\* [0, 0.95] and the cutoff the coefficients are computed from lies in
\* [20, 20000] Hz, so that the damping k = 2 - 2 * resonance is 0.1 at least.
C25_FilterParamsInRange ==
    /\ \A r \in fill.reso : 0 <= r /\ r <= RESO_MAX /\ Damping(r) >= FIX_ONE \div 10
    /\ \A f \in fill.fc : CUTOFF_MIN <= f /\ f <= CUTOFF_MAX

\* The part of C25 that is about the cutoff.
CutoffInRange == \A f \in fill.fc : CUTOFF_MIN <= f /\ f <= CUTOFF_MAX

----------------------------------------------------------------------------
(* The LED *)

SetupDone == pc \in LoopPcs \/ pc = "cleanup" \/ (pc = "exited" /\ was.pc = "cleanup")

\* C26: once the setup is complete, the colour of the last /led message sent
\* is the colour of the waveform target (Saw 1, PWM 2, Tri 3, Sine 4), and
\* every colour sent lies in 0..7.
C26_LedTracksWaveform ==
    /\ SetupDone => panel.led = LED_COLORS[voice.targetWaveform + 1]
    /\ LED_COLORS = <<1, 2, 3, 4>>
    /\ \A i \in 1..Len(sent) : sent[i].addr = "/led" => sent[i].arg \in 0..7

\* A received /aux has advanced the waveform and sent its colour.
C26_Witness ==
    /\ op.name = "recv"
    /\ voice.targetWaveform = 1 /\ pre.targetWaveform = 0
    /\ \E i \in 1..Len(sent) : sent[i] = SetLed(2)
    /\ panel.led = 2 /\ was.panel.led = 1

----------------------------------------------------------------------------
(* The filter *)

Abs(x) == IF x >= 0 THEN x ELSE 0 - x

\* C27: for a cutoff in [20, 20000] Hz and a resonance in [0, 0.95], MaxTicks
\* ticks on input within [-1, 1] leave both integrator states bounded: neither
\* exceeds 100 in magnitude (and so neither is infinite or not a number).
C27_FilterStable ==
    fin.signal # "none" =>
        /\ Abs(fin.v0) <= FIX_ONE
        /\ Abs(filt.ic1eq) <= 100 * FIX_ONE
        /\ Abs(filt.ic2eq) <= 100 * FIX_ONE

\* The highest cutoff at full resonance, driven in phase, after all the ticks.
C27_Witness ==
    /\ fin.ticks >= 10000
    /\ fin.fc = CUTOFF_MAX /\ fin.reso = RESO_MAX /\ fin.signal = "drive"
    /\ Abs(filt.ic1eq) > FIX_ONE

\* C28: after any interleaving of gate(true), gate(false), setRelease and
\* tick the envelope value lies in [0, 1], and whenever the stage is Off the
\* value is exactly 0.
C28_EnvelopeValueRange ==
    /\ envl.value >= 0
    /\ envl.value <= ENV_ONE
    /\ envl.stage = "OFF" => envl.value = 0

\* The attack reaches the upper end of the range: a tick in Attack whose
\* value passes 0.999 sets it to exactly 1.0.
C28_Witness ==
    /\ eop.name = "tick"
    /\ eop.pre.stage = "ATTACK" /\ eop.pre.value < ENV_ONE
    /\ envl.stage = "ATTACK" /\ envl.value = ENV_ONE

\* Off is re-entered: a tick ends a release whose time a setRelease chose,
\* and leaves the value 0.
C28_WitnessOffAgain ==
    /\ eop.name = "tick"
    /\ eop.pre.stage = "RELEASE" /\ eop.pre.value >= ENV_RELEASE_DONE
    /\ eop.pre.releaseCoeff # EnvelopeInit.releaseCoeff
    /\ envl.stage = "OFF" /\ envl.value = 0

\* C29: whenever the note stack is non-empty, the portamento target is the
\* pitch of the note on top of the stack.
C29_PitchFollowsTop ==
    voice.stack # << >> =>
        voice.porta.target = log2f(mtof(NoteStack_top(voice.stack)))

\* A push dropped at capacity: noteOn for a note that is not held, on a full
\* stack.
DroppedPush ==
    /\ op.name = "key" /\ op.call.fn = "noteOn"
    /\ Len(pre.stack) = NOTE_STACK_SZ
    /\ IndexOf(pre.stack, op.call.note) = 0

\* C30: the gate flag is true exactly when the note stack is non-empty.
C30_GateMatchesHeld == voice.gateOn <=> voice.stack # << >>

C30_Witness ==
    /\ DroppedPush
    /\ voice.stack = pre.stack /\ voice.gateOn

\* noteOff for a note that was never held, with other notes held.
C30_WitnessNeverHeld ==
    /\ op.name = "key" /\ op.call.fn = "noteOff"
    /\ pre.stack # << >> /\ IndexOf(pre.stack, op.call.note) = 0
    /\ voice.stack = pre.stack /\ voice.gateOn

\* C31: while the gate flag is set the envelope stage is Attack, and while it
\* is clear the stage is Off or Release.
C31_GateMatchesStage ==
    /\ voice.gateOn => voice.env.stage = "ATTACK"
    /\ ~voice.gateOn => voice.env.stage \in {"OFF", "RELEASE"}

\* One of two held notes has been released during the attack, under a
\* release time set by the knob and after some samples: the gate stays set
\* and the stage Attack.
C31_Witness ==
    /\ voice.stack = <<61>> /\ voice.porta.current = log2f(mtof(60))
    /\ voice.env.releaseCoeff # EnvelopeInit.releaseCoeff
    /\ voice.gateOn /\ voice.env.stage = "ATTACK"
    /\ voice.env.value > 0 /\ voice.env.value < ENV_ONE

\* Two notes are held and the attack is complete: the envelope stays in
\* Attack at full level.
C31_WitnessHeld ==
    /\ Len(voice.stack) = 2 /\ voice.gateOn
    /\ voice.env.stage = "ATTACK" /\ voice.env.value = ENV_ONE

\* The last note is released under a release time set by the knob: the gate
\* is clear and the envelope decays in Release.
C31_WitnessReleasing ==
    /\ voice.stack = << >> /\ ~voice.gateOn
    /\ voice.env.releaseCoeff # EnvelopeInit.releaseCoeff
    /\ voice.env.stage = "RELEASE"
    /\ voice.env.value > 0 /\ voice.env.value < ENV_ONE \div 2

====
